---- MODULE Spec2Model ----
(***************************************************************************)
(* Connectivity core of the comms crate: the ConnectivityManagerActor      *)
(* (comms/src/connectivity/manager.rs), its PeerPools collection, the      *)
(* ConnectivityRequester handle (requester.rs) and the pieces of the       *)
(* PeerManager and ConnectionManager the actor touches.                    *)
(***************************************************************************)
EXTENDS Integers, Sequences, FiniteSets, TLC

\* ------------------------------------------------------------------------
\* Bounds of the model
\* ------------------------------------------------------------------------

\* total number of requester method calls over a run
MaxCalls == 2

\* total number of items the connection manager publishes on its event stream
MaxEvents == 2

\* the requester handles
Requesters == {1}

\* node ids of remote peers
NodeIds == {1}

\* node_identity.node_id() of the local node
LocalNodeId == 0

\* the ConnectivitySelection values offered to select_connections
Selections == {"Propagation", "Single"}

\* answers of the peer directory to a selection query: the node ids selected
Selected == {<<>>, <<1>>}

\* readings of Instant::elapsed() offered to is_stale, in seconds
Elapsed == {0, 601, 7201}

\* the threads that call get_next_id concurrently
Threads == {1, 2, 3}

\* number of get_next_id calls one thread makes
MaxIdsPerThread == 3

\* last reading of the directory's clock
MaxTime == 2

\* the public keys of the peers that may be stored in the directory
PubKeys == {1, 2, 3}

\* ban durations offered to ban_for
Durations == {1, 2}

\* the arguments offered to closest_peers: target node ids, limits, exclusion
\* lists and feature filters
Targets == {6}

Limits == {0, 2, 3}

Exclusions == {{}, {1}}

\* the node ids looked up by direct_identity_node_id: 5, 2 and 7 are derived from
\* the public keys, 0 from none of them
LookupNodeIds == {0, 2, 5, 7}

\* the public keys add_or_update_online_peer and the concurrent writes are
\* called with
OnlineKeys == {1}

\* the most failed connection attempts recorded for a peer
MaxFailed == 1

\* the closures f given to update_each: "offline" replaces every peer that is not
\* offline by one that is, "online" every offline peer by one that is not
Closures == {"offline", "online"}

\* the public keys of the peers that go offline, fail or get banned before
\* select_neighbours is called
SelectKeys == {1, 2}

\* the values of config.broadcast_cooldown_max_attempts
CooldownMaxAttempts == {0, 1}

\* the values of config.broadcast_cooldown_period
CooldownPeriods == {1, 2}

\* the region sizes n offered to calc_region_threshold
RegionSizes == {1, 2}

\* readings of Instant::elapsed() offered to a refresh of a pool that was
\* refreshed before: none, each stale interval, and one second past each
StaleReadings == {0, 600, 601, 7200, 7201}

\* the node ids a pool is connected to, and those a selection query yields
NodeLists == {<<>>, <<1>>, <<2>>, <<1, 2>>}

\* the pool ids a refresh is asked for: 0 is the id of the pool, 1 of none
PoolIds == {0, 1}

\* ------------------------------------------------------------------------
\* Program constants
\* ------------------------------------------------------------------------

desired_neighbouring_pool_size == 8

neighbouring_pool_refresh_interval == 600

desired_random_pool_size == 5

random_pool_refresh_interval == 7200

PoolTypes == {"Neighbours", "Random"}

\* filler of the pool_type field of a message that carries no pool type
NoType == "-"

\* Option<T>: None is the empty sequence, Some(v) the one-element sequence
None == <<>>

Some(v) == <<v>>

VARIABLES
    active_pools,     \* ConnectivityManagerActor.active_pools : PeerPools (Vec<PeerPool>)
    ID_COUNTER,       \* static ID_COUNTER of get_next_id
    tasks,            \* refresh tasks spawned with task::spawn and not yet finished
    request_rx,       \* messages queued in the mpsc request channel
    senders_dropped,  \* every ConnectivityRequester (mpsc::Sender) has been dropped
    cm_events,        \* items queued in the connection manager event subscription
    streams_terminated, \* both Fuse streams of the select have yielded None
    events_closed,    \* the connection manager dropped its event publisher
    emitted,          \* number of event items published so far
    actor,            \* position of ConnectivityManagerActor::run: "running" or "exited"
    shutdown_fired,   \* the ShutdownSignal has resolved
    pc,               \* per requester: "idle" or "awaiting" (suspended on reply_rx)
    oneshot,          \* per requester: state of the one-shot reply channel of its call
    result,           \* per requester: the method it called last and the value it returned
    sent,             \* number of requester method calls made so far; numbers the messages
    handled,          \* per requester: number of the message of its the actor handled last
    ok_added,         \* pool types for which an AddPool has replied Ok
    last,             \* the actor's last select turn
    live,             \* connections the connection manager holds open
    cm_requests,      \* requests the actor sent to the connection manager
    banned,           \* peers banned in the peer directory
    thread_ids,       \* per thread: the ids get_next_id returned to it, in call order
    ended_detached,   \* a refresh task has run to its end after run had returned
    peer_storage,     \* PeerManager.peer_storage: the stored Peer of each public key, if any
    now,              \* reading of the clock the directory compares banned_until with
    ban_log,          \* per public key: the ban the last completed ban_for / unban left
    dir_reply,        \* what the last directory query returned, until the next write or tick
    upsert,           \* position and locals of the add_or_update_online_peer call in progress
    upsert_log,       \* the last add_or_update_online_peer to succeed, if no write ran with or after it
    refresh_call      \* the last call of refresh_pool_if_stale or get_changes made on given pools

actor_vars ==
    <<active_pools, ID_COUNTER, tasks, request_rx, senders_dropped, cm_events,
      events_closed, streams_terminated, emitted, actor, shutdown_fired, pc,
      oneshot, result, sent, handled, ok_added, last, live, cm_requests, banned>>

\* the state outside the actor, its requesters and its connection manager
directory_vars == <<peer_storage, now, ban_log, dir_reply>>

\* the caller of add_or_update_online_peer
online_vars == <<upsert, upsert_log>>

\* the caller of the refresh on pools of every shape
refresh_vars == <<refresh_call>>

not_actor_vars == <<thread_ids, ended_detached, directory_vars, online_vars, refresh_vars>>

vars == <<actor_vars, not_actor_vars>>

\* ------------------------------------------------------------------------
\* peer_pool.rs
\* ------------------------------------------------------------------------

\* get_next_id: ID_COUNTER.fetch_add(1) returns the old value
get_next_id_load_only(counter) ==
    [id |-> counter, counter |-> counter]

get_next_id(counter) ==
    [id |-> counter, counter |-> counter + 1]

\* PeerPool::new
PeerPool_new(id, pool_type, params) ==
    [id |-> id,
     pool_type |-> pool_type,
     params |-> params,
     status |-> "Uninitialized",
     connections |-> <<>>,
     last_refreshed |-> None,
     refresh_in_progress |-> FALSE]

\* PeerPool::is_stale, elapsed being the reading of last_refreshed.elapsed()
is_stale_at_interval(pool, elapsed) ==
    IF pool.last_refreshed = None
        THEN TRUE
        ELSE elapsed >= pool.params.stale_interval

is_stale(pool, elapsed) ==
    IF pool.last_refreshed = None
        THEN TRUE
        ELSE elapsed > pool.params.stale_interval

\* a PeerConnection, known here by the node id of its peer
PeerConnection(node) == [peer_node_id |-> node]

\* PeerPool::get_node_ids: the peer node id of each connection, in stored order
get_node_ids(pool) ==
    [i \in 1..Len(pool.connections) |-> pool.connections[i].peer_node_id]

\* ------------------------------------------------------------------------
\* peer_pools.rs
\* ------------------------------------------------------------------------

PeerPools_new == <<>>

PeerPools_push(pools, pool) == Append(pools, pool)

PeerPools_get_mut(pools, pool_id) ==
    IF \E i \in 1..Len(pools) : pools[i].id = pool_id
        THEN Some(pools[CHOOSE i \in 1..Len(pools) :
                          /\ pools[i].id = pool_id
                          /\ \A j \in 1..(i - 1) : pools[j].id # pool_id])
        ELSE None

PeerPools_get_by_type(pools, pool_type) ==
    IF \E i \in 1..Len(pools) : pools[i].pool_type = pool_type
        THEN Some(pools[CHOOSE i \in 1..Len(pools) :
                          /\ pools[i].pool_type = pool_type
                          /\ \A j \in 1..(i - 1) : pools[j].pool_type # pool_type])
        ELSE None

\* ------------------------------------------------------------------------
\* manager.rs: pool creation and refresh
\* ------------------------------------------------------------------------

\* the pool-exists test of the AddPool arm:
\* self.active_pools.iter().any(|pool| pool.pool_type() == pool_type)
HasPoolOfType_never(pools, pool_type) == FALSE

HasPoolOfType(pools, pool_type) ==
    \E i \in 1..Len(pools) : pools[i].pool_type = pool_type

get_pool_params_by_type(pool_type) ==
    IF pool_type = "Neighbours"
        THEN [num_desired |-> desired_neighbouring_pool_size,
              stale_interval |-> neighbouring_pool_refresh_interval,
              min_required |-> None]
        ELSE [num_desired |-> desired_random_pool_size,
              stale_interval |-> random_pool_refresh_interval,
              min_required |-> Some(0)]

\* select_peers: the peer manager query either fails (dir_ok = FALSE) or yields
\* the node ids of the selected peers
select_peers(pool, dir_ok, selected) ==
    IF dir_ok
        THEN [ok |-> TRUE, peers |-> selected]
        ELSE [ok |-> FALSE, peers |-> <<>>]

\* get_changes: propagates the error of select_peers with `?`, and otherwise
\* returns Ok((vec![], vec![])) whatever was selected
get_changes_partitioned(pool, dir_ok, selected) ==
    LET new == select_peers(pool, dir_ok, selected)
        current == get_node_ids(pool)
        IsNew(n) == \E i \in 1..Len(new.peers) : new.peers[i] = n
        IsCurrent(n) == \E i \in 1..Len(current) : current[i] = n
    IN  IF new.ok
            THEN [ok |-> TRUE,
                  new_peers |-> SelectSeq(new.peers, LAMBDA n : ~IsCurrent(n)),
                  stale_peers |-> SelectSeq(current, LAMBDA n : ~IsNew(n))]
            ELSE [ok |-> FALSE, new_peers |-> <<>>, stale_peers |-> <<>>]

get_changes(pool, dir_ok, selected) ==
    IF select_peers(pool, dir_ok, selected).ok
        THEN [ok |-> TRUE, new_peers |-> <<>>, stale_peers |-> <<>>]
        ELSE [ok |-> FALSE, new_peers |-> <<>>, stale_peers |-> <<>>]

\* a refresh_pool_if_stale that joins the task it spawned before it returns
refresh_pool_if_stale_joins_task(pools, pool_id, dir_ok, selected, elapsed) ==
    LET found == PeerPools_get_mut(pools, pool_id) IN
    IF found = None
        THEN [res |-> "PoolNotFoundById", spawned |-> {}, queried |-> FALSE,
              pools |-> pools]
    ELSE IF ~is_stale(found[1], elapsed)
        THEN [res |-> "Ok", spawned |-> {}, queried |-> FALSE, pools |-> pools]
    ELSE IF ~get_changes(found[1], dir_ok, selected).ok
        THEN [res |-> "PeerManagerError", spawned |-> {}, queried |-> TRUE,
              pools |-> pools]
    ELSE [res |-> "Ok", spawned |-> {}, queried |-> TRUE, pools |-> pools]

\* refresh_pool_if_stale: the result returned to the caller, the set of tasks it
\* spawns, whether it reached the peer selection of get_changes, and the pools
\* as it leaves them: it holds the pool by get_mut and assigns nothing to it
refresh_pool_if_stale(pools, pool_id, dir_ok, selected, elapsed) ==
    LET found == PeerPools_get_mut(pools, pool_id) IN
    IF found = None
        THEN [res |-> "PoolNotFoundById", spawned |-> {}, queried |-> FALSE,
              pools |-> pools]
    ELSE IF ~is_stale(found[1], elapsed)
        THEN [res |-> "Ok", spawned |-> {}, queried |-> FALSE, pools |-> pools]
    ELSE IF ~get_changes(found[1], dir_ok, selected).ok
        THEN [res |-> "PeerManagerError", spawned |-> {}, queried |-> TRUE,
              pools |-> pools]
    ELSE [res |-> "Ok", spawned |-> {pool_id}, queried |-> TRUE, pools |-> pools]

\* add_pool: create the pool, push it, then refresh it; the pool stays pushed
\* when the refresh returns an error
add_pool_pops_on_error(pools, counter, pool_type, dir_ok, selected, elapsed) ==
    LET next == get_next_id(counter)
        pool == PeerPool_new(next.id, pool_type, get_pool_params_by_type(pool_type))
        pushed == PeerPools_push(pools, pool)
        refresh == refresh_pool_if_stale(pushed, pool.id, dir_ok, selected, elapsed)
    IN  [pools |-> IF refresh.res = "Ok" THEN refresh.pools ELSE pools,
         counter |-> next.counter,
         res |-> refresh.res,
         spawned |-> refresh.spawned]

add_pool(pools, counter, pool_type, dir_ok, selected, elapsed) ==
    LET next == get_next_id(counter)
        pool == PeerPool_new(next.id, pool_type, get_pool_params_by_type(pool_type))
        pushed == PeerPools_push(pools, pool)
        refresh == refresh_pool_if_stale(pushed, pool.id, dir_ok, selected, elapsed)
    IN  [pools |-> refresh.pools,
         counter |-> next.counter,
         res |-> refresh.res,
         spawned |-> refresh.spawned]

\* BanPeer arm: ban_peer returns Ok(()) without touching anything
ban_peer(node_id) == "Ok"

\* ------------------------------------------------------------------------
\* requester.rs
\* ------------------------------------------------------------------------

\* self.sender.send(..).await.map_err(|_| ConnectivityError::ActorDisconnected)?
send_result(send_ok) ==
    IF send_ok THEN "Ok" ELSE "ActorDisconnected"

\* reply_rx.await.map_err(|_| ConnectivityError::ActorResponseCancelled)?
\* slot is the state of the one-shot channel: "dropped" or the reply sent
recv_result_swapped(slot) ==
    IF slot = "dropped" THEN "ActorDisconnected" ELSE slot

recv_result(slot) ==
    IF slot = "dropped" THEN "ActorResponseCancelled" ELSE slot

\* a requester that is not inside a method call
NoCall == [method |-> "none", sent |-> FALSE, value |-> "none"]

\* the methods that create a one-shot reply channel and await it
ReplyMethods == {"AddPool", "GetPool", "SelectConnections"}

\* the methods that only enqueue
FireAndForget == {"ReleasePool", "BanPeer"}

Request(kind, pool_type, node, sel, c) ==
    [kind |-> kind, pool_type |-> pool_type, node |-> node, sel |-> sel,
     from |-> c, n |-> sent + 1]

\* One requester method: build the message, send it, and either return at once
\* (fire and forget, or the send failed) or suspend on the reply channel.  The
\* send fails when the receiver is gone, i.e. the actor's run has returned.
Call(c, kind, pool_type, node, sel) ==
    /\ pc[c] = "idle"
    /\ ~senders_dropped
    /\ sent < MaxCalls
    /\ sent' = sent + 1
    /\ IF actor = "exited"
          THEN /\ result' = [result EXCEPT ![c] =
                    [method |-> kind, sent |-> FALSE, value |-> send_result(FALSE)]]
               /\ oneshot' = [oneshot EXCEPT ![c] = "none"]
               /\ UNCHANGED <<request_rx, pc>>
          ELSE /\ request_rx' = Append(request_rx, Request(kind, pool_type, node, sel, c))
               /\ IF kind \in ReplyMethods
                     THEN /\ pc' = [pc EXCEPT ![c] = "awaiting"]
                          /\ oneshot' = [oneshot EXCEPT ![c] = "pending"]
                          /\ result' = [result EXCEPT ![c] =
                                [method |-> kind, sent |-> TRUE, value |-> "pending"]]
                     ELSE /\ pc' = pc
                          /\ oneshot' = [oneshot EXCEPT ![c] = "none"]
                          /\ result' = [result EXCEPT ![c] =
                                [method |-> kind, sent |-> TRUE, value |-> send_result(TRUE)]]
    /\ UNCHANGED <<active_pools, ID_COUNTER, tasks, senders_dropped, cm_events,
                   events_closed, streams_terminated, emitted, actor, shutdown_fired,
                   handled, ok_added, last, live, cm_requests, banned>>
    /\ UNCHANGED not_actor_vars

Requester_add_pool(c, pool_type) == Call(c, "AddPool", pool_type, 0, NoType)

Requester_release_pool(c, pool_type) == Call(c, "ReleasePool", pool_type, 0, NoType)

Requester_get_pool(c, pool_type) == Call(c, "GetPool", pool_type, 0, NoType)

Requester_select_connections(c, sel, node) ==
    Call(c, "SelectConnections", NoType, node, sel)

Requester_ban_peer(c, node) == Call(c, "BanPeer", NoType, node, NoType)

\* reply_rx.await resolves: with the reply, or with Canceled when reply_tx was dropped
AwaitReply(c) ==
    /\ pc[c] = "awaiting"
    /\ oneshot[c] # "pending"
    /\ pc' = [pc EXCEPT ![c] = "idle"]
    /\ result' = [result EXCEPT ![c].value = recv_result(oneshot[c])]
    /\ UNCHANGED <<active_pools, ID_COUNTER, tasks, request_rx, senders_dropped,
                   cm_events, events_closed, streams_terminated, emitted, actor,
                   shutdown_fired, oneshot, sent, handled, ok_added, last, live,
                   cm_requests, banned>>
    /\ UNCHANGED not_actor_vars

\* the last ConnectivityRequester is dropped
DropRequesters ==
    /\ ~senders_dropped
    /\ \A c \in Requesters : pc[c] = "idle"
    /\ senders_dropped' = TRUE
    /\ UNCHANGED <<active_pools, ID_COUNTER, tasks, request_rx, cm_events,
                   streams_terminated, events_closed, emitted, actor, shutdown_fired,
                   pc, oneshot, result, sent, handled, ok_added, last, live,
                   cm_requests, banned>>
    /\ UNCHANGED not_actor_vars

\* ------------------------------------------------------------------------
\* manager.rs: the main loop of ConnectivityManagerActor::run
\* ------------------------------------------------------------------------

\* self.request_rx.select_next_some(): the oldest queued message
select_next_some_newest(queue) ==
    [item |-> queue[Len(queue)], rest |-> SubSeq(queue, 1, Len(queue) - 1)]

select_next_some(queue) ==
    [item |-> Head(queue), rest |-> Tail(queue)]

\* where run stands after a select arm has finished with the given outcome: the
\* request arm and the event arm discard what the handler produced and loop
run_after_arm_stops_on_error(outcome) ==
    IF outcome = "Ok" THEN "running" ELSE "exited"

run_after_arm(outcome) == "running"

\* let _ = reply_tx.send(reply)
reply_tx_send(c, reply) ==
    [oneshot EXCEPT ![c] = reply]

\* reply_tx goes out of scope without a send
reply_tx_drop(c) ==
    [oneshot EXCEPT ![c] = "dropped"]

\* what a handler can end with that is an error: the Err results of add_pool and
\* ban_peer, and an Err item of the event subscription
ErrorOutcomes == {"PeerManagerError", "PoolNotFoundById", "ErrItem"}

\* the record of a select turn: which arm ran, on what, what it replied, whether
\* it pushed a pool, and whether the turn before it ended in an error
Turn(kind, pool_type, from, reply, created) ==
    [kind |-> kind, pool_type |-> pool_type, from |-> from, reply |-> reply,
     created |-> created, after_error |-> last.reply \in ErrorOutcomes]

RequestReady(kind) ==
    /\ actor = "running"
    /\ request_rx # <<>>
    /\ select_next_some(request_rx).item.kind = kind

\* what every request arm does around its handler
Dequeued(req, reply, created) ==
    /\ request_rx' = select_next_some(request_rx).rest
    /\ handled' = [handled EXCEPT ![req.from] = req.n]
    /\ last' = Turn(req.kind, req.pool_type, req.from, reply, created)
    /\ actor' = run_after_arm(reply)

\* AddPool(pool_type, reply_tx)
HandleAddPool ==
    /\ RequestReady("AddPool")
    /\ LET req == select_next_some(request_rx).item IN
       \E dir_ok \in BOOLEAN, selected \in Selected, elapsed \in Elapsed :
          LET exists == HasPoolOfType(active_pools, req.pool_type)
              added == add_pool(active_pools, ID_COUNTER, req.pool_type, dir_ok, selected, elapsed)
              reply == IF exists THEN "Ok" ELSE added.res
          IN  /\ active_pools' = IF exists THEN active_pools ELSE added.pools
              /\ ID_COUNTER' = IF exists THEN ID_COUNTER ELSE added.counter
              /\ tasks' = IF exists THEN tasks ELSE tasks \cup added.spawned
              /\ oneshot' = reply_tx_send(req.from, reply)
              /\ ok_added' = IF reply = "Ok" THEN ok_added \cup {req.pool_type} ELSE ok_added
              /\ Dequeued(req, reply, ~exists)
    /\ UNCHANGED <<senders_dropped, cm_events, streams_terminated, events_closed,
                   emitted, shutdown_fired, pc, result, sent, live, cm_requests,
                   banned>>
    /\ UNCHANGED not_actor_vars

\* ReleasePool(pool_type) => {}
ReleasePoolBody_clears_all(req) ==
    /\ active_pools' = PeerPools_new
    /\ UNCHANGED <<ID_COUNTER, tasks, oneshot, live, cm_requests, banned>>

ReleasePoolBody(req) ==
    UNCHANGED <<active_pools, ID_COUNTER, tasks, oneshot, live, cm_requests, banned>>

HandleReleasePool ==
    /\ RequestReady("ReleasePool")
    /\ LET req == select_next_some(request_rx).item IN
          /\ ReleasePoolBody(req)
          /\ Dequeued(req, "NoReply", FALSE)
    /\ UNCHANGED <<senders_dropped, cm_events, streams_terminated, events_closed,
                   emitted, shutdown_fired, pc, result, sent, ok_added>>
    /\ UNCHANGED not_actor_vars

\* GetPool(pool_type, reply_tx) => {}
HandleGetPool ==
    /\ RequestReady("GetPool")
    /\ LET req == select_next_some(request_rx).item IN
          /\ oneshot' = reply_tx_drop(req.from)
          /\ Dequeued(req, "NoReply", FALSE)
    /\ UNCHANGED <<active_pools, ID_COUNTER, tasks, senders_dropped, cm_events,
                   streams_terminated, events_closed, emitted, shutdown_fired, pc,
                   result, sent, ok_added, live, cm_requests, banned>>
    /\ UNCHANGED not_actor_vars

\* SelectConnections(selection, reply_tx) => {}
HandleSelectConnections ==
    /\ RequestReady("SelectConnections")
    /\ LET req == select_next_some(request_rx).item IN
          /\ oneshot' = reply_tx_drop(req.from)
          /\ Dequeued(req, "NoReply", FALSE)
    /\ UNCHANGED <<active_pools, ID_COUNTER, tasks, senders_dropped, cm_events,
                   streams_terminated, events_closed, emitted, shutdown_fired, pc,
                   result, sent, ok_added, live, cm_requests, banned>>
    /\ UNCHANGED not_actor_vars

\* BanPeer(node_id): an error of ban_peer is logged
HandleBanPeer ==
    /\ RequestReady("BanPeer")
    /\ LET req == select_next_some(request_rx).item IN
          Dequeued(req, IF ban_peer(req.node) = "Ok" THEN "NoReply" ELSE ban_peer(req.node),
                   FALSE)
    /\ UNCHANGED <<active_pools, ID_COUNTER, tasks, senders_dropped, cm_events,
                   streams_terminated, events_closed, emitted, shutdown_fired, pc,
                   oneshot, result, sent, ok_added, live, cm_requests, banned>>
    /\ UNCHANGED not_actor_vars

\* handle_connection_manager_event: every arm is empty (TODO)
handle_connection_manager_event_lists_peer(pools, event) ==
    [i \in 1..Len(pools) |->
        IF event.kind \in {"PeerDisconnected", "PeerConnectWillClose"}
            THEN [pools[i] EXCEPT !.connections = Append(@, PeerConnection(event.node))]
            ELSE pools[i]]

handle_connection_manager_event(pools, event) == pools

\* the event arm: an Err item is skipped, an Ok item goes to
\* handle_connection_manager_event
HandleEvent ==
    /\ actor = "running"
    /\ cm_events # <<>>
    /\ LET ev == select_next_some(cm_events).item
           outcome == IF ev.ok THEN "NoReply" ELSE "ErrItem"
       IN  /\ cm_events' = select_next_some(cm_events).rest
           /\ active_pools' = IF ev.ok
                                 THEN handle_connection_manager_event(active_pools, ev)
                                 ELSE active_pools
           /\ last' = Turn("Event", ev.kind, 0, outcome, FALSE)
           /\ actor' = run_after_arm(outcome)
    /\ UNCHANGED <<ID_COUNTER, tasks, request_rx, senders_dropped,
                   streams_terminated, events_closed, emitted, shutdown_fired, pc,
                   oneshot, result, sent, handled, ok_added, live, cm_requests,
                   banned>>
    /\ UNCHANGED not_actor_vars

\* both streams have yielded None (every sender is gone and the queue is drained,
\* the event publisher is gone and the subscription is drained): both Fuse
\* wrappers are terminated, select! skips their arms and pends on the one arm
\* left, the shutdown signal
SelectPendsOnShutdown ==
    /\ actor = "running"
    /\ senders_dropped
    /\ request_rx = <<>>
    /\ events_closed
    /\ cm_events = <<>>
    /\ ~shutdown_fired
    /\ ~streams_terminated
    /\ streams_terminated' = TRUE
    /\ UNCHANGED <<active_pools, ID_COUNTER, tasks, request_rx, senders_dropped,
                   cm_events, events_closed, emitted, actor, shutdown_fired, pc,
                   oneshot, result, sent, handled, ok_added, last, live, cm_requests,
                   banned>>
    /\ UNCHANGED not_actor_vars

\* the shutdown arm: log and break.  run returns, the actor is dropped, and with
\* it the receiver, the queued messages (their reply senders included) and the
\* event subscription
ExitOnShutdown ==
    /\ actor = "running"
    /\ shutdown_fired
    /\ actor' = "exited"
    /\ last' = Turn("Shutdown", NoType, 0, "NoReply", FALSE)
    /\ request_rx' = <<>>
    /\ cm_events' = <<>>
    /\ oneshot' = [c \in Requesters |->
                      IF oneshot[c] = "pending" THEN "dropped" ELSE oneshot[c]]
    /\ UNCHANGED <<active_pools, ID_COUNTER, tasks, senders_dropped,
                   streams_terminated, events_closed, emitted, shutdown_fired, pc,
                   result, sent, handled, ok_added, live, cm_requests, banned>>
    /\ UNCHANGED not_actor_vars

\* what a spawned refresh_neighbour_pool / refresh_random_pool does to the pools:
\* the functions receive config, peer_manager, connection_manager and pool_id, no
\* handle on the pools, and their bodies are empty
refresh_task_marks_refreshed(pools, pool_id) ==
    [i \in 1..Len(pools) |->
        IF pools[i].id = pool_id
            THEN [pools[i] EXCEPT !.status = "Ok", !.last_refreshed = Some(0)]
            ELSE pools[i]]

refresh_task_adds_peer(pools, pool_id) ==
    [i \in 1..Len(pools) |->
        IF pools[i].id = pool_id
            THEN [pools[i] EXCEPT !.connections = Append(@, PeerConnection(1))]
            ELSE pools[i]]

refresh_task_adds_self(pools, pool_id) ==
    [i \in 1..Len(pools) |->
        IF pools[i].id = pool_id
            THEN [pools[i] EXCEPT !.connections = Append(@, PeerConnection(LocalNodeId))]
            ELSE pools[i]]

refresh_task(pools, pool_id) == pools

\* a spawned refresh task runs to its end, while run is still looping or after
\* it has returned (task::spawn detaches the task)
RefreshTaskEnds ==
    /\ \E pool_id \in tasks :
          /\ tasks' = tasks \ {pool_id}
          /\ active_pools' = refresh_task(active_pools, pool_id)
    /\ ended_detached' = (ended_detached \/ actor = "exited")
    /\ UNCHANGED <<ID_COUNTER, request_rx, senders_dropped, cm_events,
                   streams_terminated, events_closed, emitted, actor, shutdown_fired,
                   pc, oneshot, result, sent, handled, ok_added, last, live,
                   cm_requests, banned>>
    /\ UNCHANGED <<thread_ids, directory_vars, online_vars, refresh_vars>>

\* ------------------------------------------------------------------------
\* The environment: the shutdown trigger and the connection manager
\* ------------------------------------------------------------------------

FireShutdown ==
    /\ ~shutdown_fired
    /\ shutdown_fired' = TRUE
    /\ UNCHANGED <<active_pools, ID_COUNTER, tasks, request_rx, senders_dropped,
                   cm_events, streams_terminated, events_closed, emitted, actor, pc,
                   oneshot, result, sent, handled, ok_added, last, live, cm_requests,
                   banned>>
    /\ UNCHANGED not_actor_vars

\* the connection manager publishes an item; the actor's subscription queues it
\* while run holds the subscription
Publish(item, now_live) ==
    /\ ~events_closed
    /\ emitted < MaxEvents
    /\ emitted' = emitted + 1
    /\ live' = now_live
    /\ cm_events' = IF actor = "running" THEN Append(cm_events, item) ELSE cm_events
    /\ UNCHANGED <<active_pools, ID_COUNTER, tasks, request_rx, senders_dropped,
                   streams_terminated, events_closed, actor, shutdown_fired, pc,
                   oneshot, result, sent, handled, ok_added, last, cm_requests,
                   banned>>
    /\ UNCHANGED not_actor_vars

PeerConnected(node) ==
    /\ node \notin live
    /\ Publish([ok |-> TRUE, kind |-> "PeerConnected", node |-> node], live \cup {node})

PeerDisconnected(node) ==
    /\ node \in live
    /\ Publish([ok |-> TRUE, kind |-> "PeerDisconnected", node |-> node], live \ {node})

PeerConnectWillClose(node) ==
    /\ node \in live
    /\ Publish([ok |-> TRUE, kind |-> "PeerConnectWillClose", node |-> node], live)

\* the subscription yields an Err item (the receiver lagged behind the publisher)
EventItemErr ==
    Publish([ok |-> FALSE, kind |-> "Err", node |-> 0], live)

CloseEvents ==
    /\ ~events_closed
    /\ events_closed' = TRUE
    /\ UNCHANGED <<active_pools, ID_COUNTER, tasks, request_rx, senders_dropped,
                   cm_events, streams_terminated, emitted, actor, shutdown_fired, pc,
                   oneshot, result, sent, handled, ok_added, last, live, cm_requests,
                   banned>>
    /\ UNCHANGED not_actor_vars

\* ------------------------------------------------------------------------
\* peer_pool.rs: threads drawing pool ids
\* ------------------------------------------------------------------------

\* one thread calls get_next_id: the fetch_add on the static counter is a single
\* atomic read-modify-write (Ordering::SeqCst)
ThreadGetNextId(t) ==
    /\ Len(thread_ids[t]) < MaxIdsPerThread
    /\ LET next == get_next_id(ID_COUNTER) IN
          /\ ID_COUNTER' = next.counter
          /\ thread_ids' = [thread_ids EXCEPT ![t] = Append(@, next.id)]
    /\ UNCHANGED <<active_pools, tasks, request_rx, senders_dropped, cm_events,
                   streams_terminated, events_closed, emitted, actor, shutdown_fired,
                   pc, oneshot, result, sent, handled, ok_added, last, live,
                   cm_requests, banned, ended_detached>>
    /\ UNCHANGED <<directory_vars, online_vars, refresh_vars>>

\* ------------------------------------------------------------------------
\* peer_manager: NodeId, Peer and the peer storage behind PeerManager
\* ------------------------------------------------------------------------

COMMUNICATION_NODE == "COMMUNICATION_NODE"

COMMUNICATION_CLIENT == "COMMUNICATION_CLIENT"

\* the features each test peer is created with
FeaturesOf(public_key) ==
    IF public_key = 3 THEN COMMUNICATION_CLIENT ELSE COMMUNICATION_NODE

\* the feature filters offered to closest_peers
FeatureFilters == {None, Some(COMMUNICATION_NODE)}

\* NodeId::from_key: a deterministic function of the public key alone, here onto
\* three-bit identifiers
derive(public_key) == (public_key * 5) % 8

bit(x, i) == (x \div (2 ^ i)) % 2

\* NodeId::distance: the bitwise XOR of the two identifiers
distance(a, b) ==
    LET x(i) == IF bit(a, i) # bit(b, i) THEN 2 ^ i ELSE 0
    IN  x(0) + x(1) + x(2)

\* Peer::new: not banned, not offline, no failed attempt
Peer_new(public_key, features) ==
    [public_key |-> public_key,
     node_id |-> derive(public_key),
     features |-> features,
     banned_until |-> None,
     is_offline |-> FALSE,
     failed_attempts |-> 0,
     last_success |-> None,
     last_failure |-> None]

\* Peer::is_banned at clock reading t
is_banned(peer, t) ==
    peer.banned_until # None /\ peer.banned_until[1] > t

\* the peers stored
StoredPeers(storage) ==
    {storage[pk][1] : pk \in {k \in DOMAIN storage : storage[k] # None}}

\* the elements of the finite set S as a sequence in ascending order of key
RECURSIVE SortedBy(_, _)
SortedBy(S, key) ==
    IF S = {}
        THEN <<>>
        ELSE LET first == CHOOSE x \in S : \A y \in S : key[x] <= key[y]
             IN  <<first>> \o SortedBy(S \ {first}, key)

\* PeerStorage::add_peer: insert, or replace the record stored under the key
PeerStorage_add_peer(storage, peer) ==
    [storage EXCEPT ![peer.public_key] = Some(peer)]

\* PeerStorage::ban_for: banned_until = now + duration
PeerStorage_ban_for(storage, public_key, duration, t) ==
    IF storage[public_key] = None
        THEN [storage |-> storage, ok |-> FALSE, value |-> "PeerNotFoundError"]
        ELSE [storage |-> [storage EXCEPT ![public_key] =
                              Some([@[1] EXCEPT !.banned_until = Some(t + duration)])],
              ok |-> TRUE,
              value |-> storage[public_key][1].node_id]

\* PeerStorage::unban: clears the ban
PeerStorage_unban(storage, public_key) ==
    IF storage[public_key] = None
        THEN [storage |-> storage, ok |-> FALSE, value |-> "PeerNotFoundError"]
        ELSE [storage |-> [storage EXCEPT ![public_key] =
                              Some([@[1] EXCEPT !.banned_until = None])],
              ok |-> TRUE,
              value |-> storage[public_key][1].node_id]

\* PeerStorage::flood_peers: every peer that is not banned
PeerStorage_flood_peers(storage, t) ==
    LET found == {p \in StoredPeers(storage) : ~is_banned(p, t)}
    IN  SortedBy(found, [p \in found |-> p.public_key])

\* PeerStorage::closest_peers: the peers that are not banned, match the features
\* and are not excluded, by ascending distance from node_id, at most n of them
PeerStorage_closest_peers(storage, t, node_id, n, excluded_peers, features) ==
    LET found == {p \in StoredPeers(storage) :
                     /\ ~is_banned(p, t)
                     /\ features = None \/ p.features = features[1]
                     /\ p.public_key \notin excluded_peers}
        sorted == SortedBy(found, [p \in found |-> distance(node_id, p.node_id)])
    IN  SubSeq(sorted, 1, IF n < Len(sorted) THEN n ELSE Len(sorted))

\* PeerStorage::calc_region_threshold: the distance of the n-th closest peer
\* matching the features. Whether banned peers are counted is not determined
\* (skips_banned), and no value is determined (None) for n = 0 or fewer than n
\* counted peers.
PeerStorage_calc_region_threshold(storage, t, region_node_id, n, features, skips_banned) ==
    LET counted == {p \in StoredPeers(storage) :
                       /\ p.features = features
                       /\ skips_banned => ~is_banned(p, t)}
        sorted == SortedBy(counted, [p \in counted |-> distance(region_node_id, p.node_id)])
    IN  IF n >= 1 /\ n <= Len(sorted)
            THEN Some(distance(region_node_id, sorted[n].node_id))
            ELSE None

\* what a lookup that found the records of found returns: a storage error, not
\* found, banned, or the peer
direct_identity(found, t, storage_fails) ==
    IF storage_fails
        THEN [ok |-> FALSE, value |-> "DatabaseError"]
        ELSE IF found = {}
            THEN [ok |-> FALSE, value |-> "PeerNotFoundError"]
            ELSE LET peer == CHOOSE p \in found : TRUE
                 IN  IF is_banned(peer, t)
                         THEN [ok |-> FALSE, value |-> "BannedPeer"]
                         ELSE [ok |-> TRUE, value |-> peer]

\* PeerStorage::direct_identity_node_id: exact lookup by node id
PeerStorage_direct_identity_node_id(storage, t, node_id, storage_fails) ==
    direct_identity({p \in StoredPeers(storage) : p.node_id = node_id}, t, storage_fails)

\* PeerStorage::direct_identity_public_key: exact lookup by public key
PeerStorage_direct_identity_public_key(storage, t, public_key, storage_fails) ==
    direct_identity({p \in StoredPeers(storage) : p.public_key = public_key}, t,
                    storage_fails)

\* PeerManager::add_peer: peer_storage.write().await.add_peer(peer)
PeerManager_add_peer_marks_offline(storage, peer) ==
    PeerStorage_add_peer(storage, [peer EXCEPT !.is_offline = TRUE])

PeerManager_add_peer(storage, peer) ==
    PeerStorage_add_peer(storage, peer)

\* PeerManager::unban: peer_storage.write().await.unban(public_key)
PeerManager_unban(storage, public_key) ==
    PeerStorage_unban(storage, public_key)

\* PeerManager::ban_for: peer_storage.write().await.ban_for(public_key, duration)
PeerManager_ban_for_calls_unban(storage, public_key, duration, t) ==
    PeerStorage_unban(storage, public_key)

PeerManager_ban_for(storage, public_key, duration, t) ==
    PeerStorage_ban_for(storage, public_key, duration, t)

\* PeerManager::flood_peers: peer_storage.read().await.flood_peers()
PeerManager_flood_peers(storage, t) ==
    PeerStorage_flood_peers(storage, t)

\* PeerManager::closest_peers: peer_storage.read().await.closest_peers(..)
PeerManager_closest_peers_no_exclusion(storage, t, node_id, n, excluded_peers, features) ==
    PeerStorage_closest_peers(storage, t, node_id, n, {}, features)

PeerManager_closest_peers(storage, t, node_id, n, excluded_peers, features) ==
    PeerStorage_closest_peers(storage, t, node_id, n, excluded_peers, features)

\* PeerManager::calc_region_threshold:
\* peer_storage.read().await.calc_region_threshold(region_node_id, n, features)
PeerManager_calc_region_threshold_one_less(storage, t, region_node_id, n, features, skips_banned) ==
    PeerStorage_calc_region_threshold(storage, t, region_node_id, n - 1, features, skips_banned)

PeerManager_calc_region_threshold(storage, t, region_node_id, n, features, skips_banned) ==
    PeerStorage_calc_region_threshold(storage, t, region_node_id, n, features, skips_banned)

\* the match of direct_identity_node_id and direct_identity_public_key on the
\* result of the storage
direct_identity_match(r) ==
    IF r.ok
        THEN [ok |-> TRUE, value |-> Some(r.value)]
        ELSE IF r.value \in {"PeerNotFoundError", "BannedPeer"}
            THEN [ok |-> TRUE, value |-> None]
            ELSE [ok |-> FALSE, value |-> r.value]

\* PeerManager::direct_identity_node_id
PeerManager_direct_identity_node_id(storage, t, node_id, storage_fails) ==
    direct_identity_match(PeerStorage_direct_identity_node_id(storage, t, node_id,
                                                              storage_fails))

\* PeerManager::direct_identity_public_key
PeerManager_direct_identity_public_key_banned_is_err(storage, t, public_key, storage_fails) ==
    LET r == PeerStorage_direct_identity_public_key(storage, t, public_key, storage_fails)
    IN  IF r.ok THEN [ok |-> TRUE, value |-> Some(r.value)]
        ELSE IF r.value = "PeerNotFoundError" THEN [ok |-> TRUE, value |-> None]
        ELSE [ok |-> FALSE, value |-> r.value]

PeerManager_direct_identity_public_key(storage, t, public_key, storage_fails) ==
    direct_identity_match(PeerStorage_direct_identity_public_key(storage, t, public_key,
                                                                 storage_fails))

\* a caller adds a newly created peer; a record already stored under the key is
\* replaced by the new one
DirAddPeer(public_key) ==
    /\ peer_storage' = PeerManager_add_peer(peer_storage,
                                            Peer_new(public_key, FeaturesOf(public_key)))
    /\ peer_storage' # peer_storage
    /\ ban_log' = IF ban_log[public_key] = None
                     THEN ban_log
                     ELSE [ban_log EXCEPT ![public_key] = Some([@[1] EXCEPT !.replaced = TRUE])]
    /\ dir_reply' = None
    /\ UNCHANGED <<actor_vars, refresh_vars, thread_ids, ended_detached, online_vars, now>>

\* a caller bans a peer; an unknown key is an error and changes nothing
DirBanFor(public_key, duration) ==
    /\ LET r == PeerManager_ban_for(peer_storage, public_key, duration, now) IN
          /\ peer_storage' = r.storage
          /\ ban_log' = IF r.ok
                           THEN [ban_log EXCEPT ![public_key] =
                                    Some([until |-> now + duration, replaced |-> FALSE])]
                           ELSE ban_log
          /\ dir_reply' = Some([op |-> "ban_for", ok |-> r.ok, value |-> r.value])
    /\ UNCHANGED <<actor_vars, refresh_vars, thread_ids, ended_detached, online_vars, now>>

DirUnban(public_key) ==
    /\ LET r == PeerManager_unban(peer_storage, public_key) IN
          /\ peer_storage' = r.storage
          /\ ban_log' = IF r.ok THEN [ban_log EXCEPT ![public_key] = None] ELSE ban_log
          /\ dir_reply' = Some([op |-> "unban", ok |-> r.ok, value |-> r.value])
    /\ UNCHANGED <<actor_vars, refresh_vars, thread_ids, ended_detached, online_vars, now>>

DirFloodPeers ==
    /\ dir_reply' = Some([op |-> "flood_peers", ok |-> TRUE,
                          value |-> PeerManager_flood_peers(peer_storage, now)])
    /\ UNCHANGED <<actor_vars, refresh_vars, thread_ids, ended_detached, online_vars, peer_storage, now, ban_log>>

DirClosestPeers(node_id, n, excluded_peers, features) ==
    /\ dir_reply' = Some([op |-> "closest_peers", ok |-> TRUE,
                          node_id |-> node_id, n |-> n,
                          excluded_peers |-> excluded_peers, features |-> features,
                          value |-> PeerManager_closest_peers(peer_storage, now, node_id, n,
                                                              excluded_peers, features)])
    /\ UNCHANGED <<actor_vars, refresh_vars, thread_ids, ended_detached, online_vars, peer_storage, now, ban_log>>

\* a caller looks a peer up by node id; the storage may fail
DirDirectIdentityNodeId(node_id) ==
    /\ \E storage_fails \in BOOLEAN :
          LET r == PeerManager_direct_identity_node_id(peer_storage, now, node_id,
                                                       storage_fails) IN
          dir_reply' = Some([op |-> "direct_identity_node_id", ok |-> r.ok,
                             node_id |-> node_id, storage_failed |-> storage_fails,
                             value |-> r.value])
    /\ UNCHANGED <<actor_vars, refresh_vars, thread_ids, ended_detached, online_vars, peer_storage, now, ban_log>>

\* a caller looks a peer up by public key; the storage may fail
DirDirectIdentityPublicKey(public_key) ==
    /\ \E storage_fails \in BOOLEAN :
          LET r == PeerManager_direct_identity_public_key(peer_storage, now, public_key,
                                                          storage_fails) IN
          dir_reply' = Some([op |-> "direct_identity_public_key", ok |-> r.ok,
                             public_key |-> public_key, storage_failed |-> storage_fails,
                             value |-> r.value])
    /\ UNCHANGED <<actor_vars, refresh_vars, thread_ids, ended_detached, online_vars, peer_storage, now, ban_log>>

\* a caller asks for the threshold of a region of n peers with the features
DirCalcRegionThreshold(region_node_id, n, features) ==
    /\ \E skips_banned \in BOOLEAN :
          LET T == PeerManager_calc_region_threshold(peer_storage, now, region_node_id, n,
                                                     features, skips_banned) IN
          /\ T # None
          /\ dir_reply' = Some([op |-> "calc_region_threshold", ok |-> TRUE,
                                node_id |-> region_node_id, n |-> n,
                                features |-> features, value |-> T[1]])
    /\ UNCHANGED <<actor_vars, refresh_vars, thread_ids, ended_detached, online_vars, peer_storage, now, ban_log>>

\* time passes
Tick ==
    /\ now < MaxTime
    /\ now' = now + 1
    /\ dir_reply' = None
    /\ UNCHANGED <<actor_vars, refresh_vars, thread_ids, ended_detached, online_vars, peer_storage, ban_log>>

\* ------------------------------------------------------------------------
\* peer_manager: the writes of a peer's record and add_or_update_online_peer
\* ------------------------------------------------------------------------

\* PeerConnectionStats::set_connection_success
set_connection_success(peer, t) ==
    [peer EXCEPT !.failed_attempts = 0, !.last_success = Some(t)]

\* PeerConnectionStats::set_connection_failed
set_connection_failed(peer, t) ==
    [peer EXCEPT !.failed_attempts = @ + 1, !.last_failure = Some(t)]

\* the connection_stats of a peer
connection_stats(peer) ==
    [failed_attempts |-> peer.failed_attempts,
     last_success |-> peer.last_success,
     last_failure |-> peer.last_failure]

\* Peer::update: each field given as Some(x) is replaced, each None is kept
Peer_update(peer, node_id, banned_until, is_offline, features, stats) ==
    [peer EXCEPT
        !.node_id = IF node_id = None THEN @ ELSE node_id[1],
        !.banned_until = IF banned_until = None THEN @ ELSE banned_until[1],
        !.is_offline = IF is_offline = None THEN @ ELSE is_offline[1],
        !.features = IF features = None THEN @ ELSE features[1],
        !.failed_attempts = IF stats = None THEN @ ELSE stats[1].failed_attempts,
        !.last_success = IF stats = None THEN @ ELSE stats[1].last_success,
        !.last_failure = IF stats = None THEN @ ELSE stats[1].last_failure]

\* PeerStorage::find_by_public_key
PeerStorage_find_by_public_key(storage, public_key) ==
    IF storage[public_key] = None
        THEN [ok |-> FALSE, value |-> "PeerNotFoundError"]
        ELSE [ok |-> TRUE, value |-> storage[public_key][1]]

\* PeerStorage::find_by_node_id
PeerStorage_find_by_node_id(storage, node_id) ==
    LET found == {p \in StoredPeers(storage) : p.node_id = node_id}
    IN  IF found = {}
            THEN [ok |-> FALSE, value |-> "PeerNotFoundError"]
            ELSE [ok |-> TRUE, value |-> CHOOSE p \in found : TRUE]

\* PeerStorage::update_peer: partial update of the record stored under the key
PeerStorage_update_peer(storage, public_key, node_id, banned_until, is_offline, features, stats) ==
    IF storage[public_key] = None
        THEN [storage |-> storage, ok |-> FALSE, value |-> "PeerNotFoundError"]
        ELSE [storage |-> [storage EXCEPT ![public_key] =
                              Some(Peer_update(@[1], node_id, banned_until, is_offline,
                                               features, stats))],
              ok |-> TRUE,
              value |-> "()"]

\* PeerStorage::set_offline: sets the flag
PeerStorage_set_offline(storage, public_key, is_offline) ==
    IF storage[public_key] = None
        THEN [storage |-> storage, ok |-> FALSE, value |-> "PeerNotFoundError"]
        ELSE [storage |-> [storage EXCEPT ![public_key] =
                              Some([@[1] EXCEPT !.is_offline = is_offline])],
              ok |-> TRUE,
              value |-> storage[public_key][1].node_id]

\* PeerStorage::delete_peer: removes the record with the node id
PeerStorage_delete_peer(storage, node_id) ==
    LET found == PeerStorage_find_by_node_id(storage, node_id)
    IN  IF ~found.ok
            THEN [storage |-> storage, ok |-> FALSE, value |-> found.value]
            ELSE [storage |-> [storage EXCEPT ![found.value.public_key] = None],
                  ok |-> TRUE,
                  value |-> "()"]

\* PeerManager::find_by_public_key: peer_storage.read().await.find_by_public_key(..)
PeerManager_find_by_public_key(storage, public_key) ==
    PeerStorage_find_by_public_key(storage, public_key)

\* PeerManager::update_peer: peer_storage.write().await.update_peer(..)
PeerManager_update_peer(storage, public_key, node_id, banned_until, is_offline, features, stats) ==
    PeerStorage_update_peer(storage, public_key, node_id, banned_until, is_offline,
                            features, stats)

\* PeerManager::set_last_connect_success: under one write lock, find_by_node_id,
\* set_connection_success on the copy, update_peer with is_offline = Some(false)
\* and its connection_stats
PeerManager_set_last_connect_success_keeps_offline(storage, node_id, t) ==
    LET found == PeerStorage_find_by_node_id(storage, node_id)
    IN  IF ~found.ok
            THEN [storage |-> storage, ok |-> FALSE, value |-> found.value]
            ELSE LET peer == set_connection_success(found.value, t)
                 IN  PeerStorage_update_peer(storage, peer.public_key, None, None, None,
                                             None, Some(connection_stats(peer)))

PeerManager_set_last_connect_success(storage, node_id, t) ==
    LET found == PeerStorage_find_by_node_id(storage, node_id)
    IN  IF ~found.ok
            THEN [storage |-> storage, ok |-> FALSE, value |-> found.value]
            ELSE LET peer == set_connection_success(found.value, t)
                 IN  PeerStorage_update_peer(storage, peer.public_key, None, None,
                                             Some(FALSE), None,
                                             Some(connection_stats(peer)))

\* PeerManager::set_last_connect_failed: under one write lock, find_by_node_id,
\* set_connection_failed on the copy, update_peer with its connection_stats
PeerManager_set_last_connect_failed(storage, node_id, t) ==
    LET found == PeerStorage_find_by_node_id(storage, node_id)
    IN  IF ~found.ok
            THEN [storage |-> storage, ok |-> FALSE, value |-> found.value]
            ELSE LET peer == set_connection_failed(found.value, t)
                 IN  PeerStorage_update_peer(storage, peer.public_key, None, None, None,
                                             None, Some(connection_stats(peer)))

\* PeerManager::delete_peer: peer_storage.write().await.delete_peer(node_id)
PeerManager_delete_peer(storage, node_id) ==
    PeerStorage_delete_peer(storage, node_id)

\* PeerManager::set_offline: peer_storage.write().await.set_offline(..)
PeerManager_set_offline(storage, public_key, is_offline) ==
    PeerStorage_set_offline(storage, public_key, is_offline)

\* add_or_update_online_peer, arm Ok(mut peer): the copy found is marked as
\* connected and updated with the node id, offline = false and the features
online_peer_keeps_offline(peer, node_id, features, t) ==
    Peer_update(set_connection_success(peer, t), Some(node_id), None, None,
                Some(features), None)

online_peer(peer, node_id, features, t) ==
    Peer_update(set_connection_success(peer, t), Some(node_id), None, Some(FALSE),
                Some(features), None)

\* PeerManager::add_or_update_online_peer when no other call runs between its
\* steps and the storage does not fail
add_or_update_online_peer(storage, pubkey, node_id, features, t) ==
    LET found == PeerManager_find_by_public_key(storage, pubkey)
    IN  IF found.ok
            THEN LET peer == online_peer(found.value, node_id, features, t)
                 IN  [storage |-> PeerManager_add_peer(storage, peer),
                      ok |-> TRUE, value |-> peer]
            ELSE LET added == PeerManager_add_peer(storage, Peer_new(pubkey, features))
                     again == PeerManager_find_by_public_key(added, pubkey)
                 IN  [storage |-> added, ok |-> again.ok, value |-> again.value]

\* the closure f of update_each applied to a peer: Some(replacement) or None
Replacement(f, peer) ==
    IF peer.is_offline = (f = "offline")
        THEN None
        ELSE Some([peer EXCEPT !.is_offline = (f = "offline")])

\* the for loop of update_each: lock.add_peer(p)? for each p of peers_to_update
\* in turn, the add_peer numbered add_fails_at failing, if any
RECURSIVE add_each(_, _, _, _)
add_each(storage, peers_to_update, i, add_fails_at) ==
    IF i > Len(peers_to_update)
        THEN [storage |-> storage, ok |-> TRUE, value |-> Len(peers_to_update)]
        ELSE IF i = add_fails_at
            THEN [storage |-> storage, ok |-> FALSE, value |-> "DatabaseError"]
            ELSE add_each(PeerStorage_add_peer(storage, peers_to_update[i]),
                          peers_to_update, i + 1, add_fails_at)

\* PeerManager::update_each: under one write lock, for_each collects the
\* replacements f returns, then each is stored with add_peer; the peers are
\* visited in the order of their public keys
PeerManager_update_each(storage, f, for_each_fails, add_fails_at) ==
    LET replaced == {p \in StoredPeers(storage) : Replacement(f, p) # None}
        visited == SortedBy(replaced, [p \in replaced |-> p.public_key])
        peers_to_update == [i \in 1..Len(visited) |-> Replacement(f, visited[i])[1]]
    IN  IF for_each_fails
            THEN [storage |-> storage, ok |-> FALSE, value |-> "DatabaseError"]
            ELSE add_each(storage, peers_to_update, 1, add_fails_at)

\* a caller of update_each; the storage may fail in for_each or in one add_peer
DirUpdateEach(f) ==
    /\ \E for_each_fails \in BOOLEAN, add_fails_at \in 0..Cardinality(PubKeys) :
          LET r == PeerManager_update_each(peer_storage, f, for_each_fails, add_fails_at)
          IN  /\ peer_storage' = r.storage
              /\ dir_reply' = Some([op |-> "update_each", ok |-> r.ok, value |-> r.value,
                                    f |-> f])
    /\ UNCHANGED <<actor_vars, refresh_vars, thread_ids, ended_detached, online_vars, now, ban_log>>

\* PeerConnectionStats::time_since_last_failure
time_since_last_failure(peer, t) ==
    IF peer.last_failure = None THEN None ELSE Some(t - peer.last_failure[1])

\* PeerFeatures::contains, on the two feature sets of the peers
contains(peer_features, features) == peer_features = features

\* the closure given to select_where in select_neighbours
select_where(peer, t, features, max_attempts, period) ==
    IF is_banned(peer, t)
        THEN FALSE
        ELSE IF ~contains(peer.features, features)
            THEN FALSE
            ELSE LET since == time_since_last_failure(peer, t)
                     is_connect_eligible ==
                         /\ ~peer.is_offline
                         /\ \/ peer.failed_attempts <= max_attempts
                            \/ IF since = None THEN TRUE ELSE since[1] >= period
                 IN  is_connect_eligible

\* PeerStorage::perform_query: filter, sort, limit
PeerStorage_perform_query(storage, selected, node_id, limit) ==
    LET sorted == SortedBy(selected, [p \in selected |-> distance(node_id, p.node_id)])
    IN  SubSeq(sorted, 1, IF limit < Len(sorted) THEN limit ELSE Len(sorted))

\* PeerManager::perform_query: peer_storage.read().await.perform_query(peer_query)
PeerManager_perform_query(storage, selected, node_id, limit) ==
    PeerStorage_perform_query(storage, selected, node_id, limit)

\* select_neighbours: the query select_where(..).sort_by(DistanceFrom(node_id))
\* .limit(n), performed by the peer manager; features and config are the free
\* names of the function body
select_neighbours(storage, t, node_id, n, features, max_attempts, period) ==
    PeerManager_perform_query(
        storage,
        {p \in StoredPeers(storage) : select_where(p, t, features, max_attempts, period)},
        node_id, n)

\* a caller selects the n neighbours of the local node
SelectNeighbours(n, max_attempts, period) ==
    /\ dir_reply' = Some([op |-> "select_neighbours", ok |-> TRUE, n |-> n,
                          max_attempts |-> max_attempts, period |-> period,
                          value |-> select_neighbours(peer_storage, now, LocalNodeId, n,
                                                      COMMUNICATION_NODE, max_attempts,
                                                      period)])
    /\ UNCHANGED <<actor_vars, refresh_vars, thread_ids, ended_detached, online_vars, peer_storage, now,
                   ban_log>>

\* no add_or_update_online_peer is in progress
NoUpsert == [pc |-> "idle"]

\* the method of PeerManager a write calls, at clock reading t
ApplyWrite(storage, w, t) ==
    CASE w.kind = "ban_for" ->
            PeerManager_ban_for(storage, w.public_key, w.duration, t)
      [] w.kind = "set_offline" ->
            PeerManager_set_offline(storage, w.public_key, w.is_offline)
      [] w.kind = "set_last_connect_failed" ->
            PeerManager_set_last_connect_failed(storage, w.node_id, t)
      [] w.kind = "delete_peer" ->
            PeerManager_delete_peer(storage, w.node_id)
      [] w.kind = "update_peer" ->
            PeerManager_update_peer(storage, w.public_key, None, Some(None), None, None,
                                    None)

\* another caller completes the write w: the call in progress, if any, has seen
\* one more write complete
Write(w) ==
    /\ LET r == ApplyWrite(peer_storage, w, now) IN
          /\ peer_storage' = r.storage
          /\ dir_reply' = Some([op |-> w.kind, ok |-> r.ok, value |-> r.value])
          /\ upsert' = IF upsert.pc = "idle"
                          THEN upsert
                          ELSE [upsert EXCEPT
                                   !.writes = IF @ = <<>>
                                                 THEN <<[write |-> w, at |-> now,
                                                         ok |-> r.ok, value |-> r.value]>>
                                                 ELSE @,
                                   !.many = (upsert.writes # <<>>)]
    /\ upsert_log' = None
    /\ UNCHANGED <<actor_vars, refresh_vars, thread_ids, ended_detached, now, ban_log>>

OnBanFor(public_key, duration) ==
    Write([kind |-> "ban_for", public_key |-> public_key, duration |-> duration])

OnSetOffline(public_key, is_offline) ==
    Write([kind |-> "set_offline", public_key |-> public_key, is_offline |-> is_offline])

\* failed_attempts is kept within MaxFailed
OnSetLastConnectFailed(node_id) ==
    /\ \A p \in StoredPeers(peer_storage) : p.failed_attempts < MaxFailed
    /\ Write([kind |-> "set_last_connect_failed", node_id |-> node_id])

OnDeletePeer(node_id) ==
    Write([kind |-> "delete_peer", node_id |-> node_id])

\* update_peer(public_key, banned_until: Some(None)), every other field None
OnUpdatePeer(public_key) ==
    Write([kind |-> "update_peer", public_key |-> public_key])

\* what add_or_update_online_peer returns, with the peer it found stored, if any,
\* and whether it repeats the call before it with no write in between
UpsertReply(ok, value, found) ==
    Some([op |-> "add_or_update_online_peer", ok |-> ok, value |-> value,
          public_key |-> upsert.public_key, found |-> found,
          repeated |-> /\ upsert_log # None
                       /\ upsert_log[1].public_key = upsert.public_key
                       /\ upsert_log[1].features = upsert.features])

\* add_or_update_online_peer: self.find_by_public_key(&pubkey).await; the read
\* lock is released when it returns
UpsertFind(public_key, features) ==
    /\ upsert.pc = "idle"
    /\ \E storage_fails \in BOOLEAN :
          LET found == IF storage_fails
                          THEN [ok |-> FALSE, value |-> "DatabaseError"]
                          ELSE PeerManager_find_by_public_key(peer_storage, public_key)
              call == [pc |-> "idle", public_key |-> public_key, features |-> features,
                       start |-> peer_storage, writes |-> <<>>, many |-> FALSE]
          IN  IF found.ok
                  THEN /\ upsert' = [call EXCEPT !.pc = "found"] @@ [peer |-> found.value]
                       /\ UNCHANGED dir_reply
                  ELSE IF found.value = "PeerNotFoundError"
                      THEN /\ upsert' = [call EXCEPT !.pc = "not found"]
                           /\ UNCHANGED dir_reply
                      ELSE /\ upsert' = NoUpsert
                           /\ dir_reply' = Some([op |-> "add_or_update_online_peer",
                                                 ok |-> FALSE, value |-> found.value,
                                                 public_key |-> public_key,
                                                 found |-> None,
                                                 repeated |-> FALSE])
    /\ UNCHANGED <<actor_vars, refresh_vars, thread_ids, ended_detached, peer_storage, now, ban_log,
                   upsert_log>>

\* arm Ok(mut peer): self.add_peer(peer.clone()).await?; Ok(peer)
UpsertAddFound ==
    /\ upsert.pc = "found"
    /\ \E storage_fails \in BOOLEAN :
          LET peer == online_peer(upsert.peer, derive(upsert.public_key), upsert.features,
                                  now)
          IN  IF storage_fails
                  THEN /\ dir_reply' = UpsertReply(FALSE, "DatabaseError", Some(upsert.peer))
                       /\ UNCHANGED <<peer_storage, upsert_log>>
                  ELSE /\ peer_storage' = PeerManager_add_peer(peer_storage, peer)
                       /\ dir_reply' = UpsertReply(TRUE, peer, Some(upsert.peer))
                       /\ upsert_log' = IF upsert.writes = <<>>
                                           THEN Some([public_key |-> upsert.public_key,
                                                      features |-> upsert.features,
                                                      value |-> peer,
                                                      storage |-> peer_storage'])
                                           ELSE None
    /\ upsert' = NoUpsert
    /\ UNCHANGED <<actor_vars, refresh_vars, thread_ids, ended_detached, now, ban_log>>

\* arm Err(PeerNotFoundError): self.add_peer(Peer::new(..)).await?
UpsertAddNew ==
    /\ upsert.pc = "not found"
    /\ \E storage_fails \in BOOLEAN :
          IF storage_fails
              THEN /\ dir_reply' = UpsertReply(FALSE, "DatabaseError", None)
                   /\ upsert' = NoUpsert
                   /\ UNCHANGED peer_storage
              ELSE /\ peer_storage' = PeerManager_add_peer(
                                          peer_storage,
                                          Peer_new(upsert.public_key, upsert.features))
                   /\ upsert' = [upsert EXCEPT !.pc = "added"]
                   /\ UNCHANGED dir_reply
    /\ UNCHANGED <<actor_vars, refresh_vars, thread_ids, ended_detached, now, ban_log, upsert_log>>

\* arm Err(PeerNotFoundError), last expression: self.find_by_public_key(&pubkey).await
UpsertFindAdded ==
    /\ upsert.pc = "added"
    /\ LET found == PeerManager_find_by_public_key(peer_storage, upsert.public_key) IN
          /\ dir_reply' = UpsertReply(found.ok, found.value, None)
          /\ upsert_log' = IF found.ok /\ upsert.writes = <<>>
                              THEN Some([public_key |-> upsert.public_key,
                                         features |-> upsert.features,
                                         value |-> found.value,
                                         storage |-> peer_storage])
                              ELSE None
    /\ upsert' = NoUpsert
    /\ UNCHANGED <<actor_vars, refresh_vars, thread_ids, ended_detached, peer_storage, now, ban_log>>

\* time passes for the callers of add_or_update_online_peer
OnTick ==
    /\ now < MaxTime
    /\ now' = now + 1
    /\ UNCHANGED <<actor_vars, refresh_vars, thread_ids, ended_detached, peer_storage, ban_log,
                   dir_reply, online_vars>>

\* ------------------------------------------------------------------------
\* peer_manager: the callers of set_last_connect_success / set_last_connect_failed
\* ------------------------------------------------------------------------

\* the node ids the connection results are reported for: those of the peers
\* that may be stored, and 0, the node id of no peer
StatsNodeIds == {0} \cup {derive(pk) : pk \in SelectKeys}

\* a caller reports a successful connection to the node; the write lock is held
\* from before the lookup until the update has returned
DirSetLastConnectSuccess(node_id) ==
    /\ LET r == PeerManager_set_last_connect_success(peer_storage, node_id, now) IN
          /\ peer_storage' = r.storage
          /\ dir_reply' = Some([op |-> "set_last_connect_success", node_id |-> node_id,
                                ok |-> r.ok, value |-> r.value])
    /\ UNCHANGED <<actor_vars, refresh_vars, thread_ids, ended_detached, online_vars, now,
                   ban_log>>

\* a caller reports a failed connection to the node, one of any number of
\* callers doing so: each holds the write lock for its lookup and update.
\* failed_attempts is kept within MaxFailed + 1
DirSetLastConnectFailed(node_id) ==
    /\ \A p \in StoredPeers(peer_storage) :
          p.node_id = node_id => p.failed_attempts <= MaxFailed
    /\ LET r == PeerManager_set_last_connect_failed(peer_storage, node_id, now) IN
          /\ peer_storage' = r.storage
          /\ dir_reply' = Some([op |-> "set_last_connect_failed", node_id |-> node_id,
                                ok |-> r.ok, value |-> r.value])
    /\ UNCHANGED <<actor_vars, refresh_vars, thread_ids, ended_detached, online_vars, now,
                   ban_log>>

\* ------------------------------------------------------------------------
\* manager.rs: refresh_pool_if_stale and get_changes on pools of every shape
\* ------------------------------------------------------------------------

\* a PeerPool of the type with the id, refreshed before or never, holding the
\* connections to the nodes
PoolOfShape(id, pool_type, refreshed, nodes) ==
    [PeerPool_new(id, pool_type, get_pool_params_by_type(pool_type)) EXCEPT
        !.last_refreshed = IF refreshed THEN Some(0) ELSE None,
        !.connections = [i \in 1..Len(nodes) |-> PeerConnection(nodes[i])]]

\* the values of active_pools the refresh is called on: no pool, or one pool
PoolsOfShape ==
    {PeerPools_new} \cup
    {PeerPools_push(PeerPools_new, PoolOfShape(0, t, r, c)) :
        t \in PoolTypes, r \in BOOLEAN, c \in NodeLists}

\* self.refresh_pool_if_stale(pool_id).await on an actor holding the pools
CallRefreshPoolIfStale(pools, pool_id) ==
    /\ \E dir_ok \in BOOLEAN, selected \in NodeLists, elapsed \in StaleReadings :
          LET r == refresh_pool_if_stale(pools, pool_id, dir_ok, selected, elapsed) IN
          refresh_call' = Some([op |-> "refresh_pool_if_stale",
                                pools |-> pools,
                                pool_id |-> pool_id,
                                elapsed |-> elapsed,
                                dir_ok |-> dir_ok,
                                res |-> r.res,
                                spawned |-> r.spawned,
                                queried |-> r.queried,
                                left |-> r.pools])
    /\ UNCHANGED <<actor_vars, thread_ids, ended_detached, directory_vars, online_vars>>

\* self.get_changes(&pool).await, the selection query yielding `selected`
CallGetChanges(pool, selected) ==
    /\ \E dir_ok \in BOOLEAN :
          LET r == get_changes(pool, dir_ok, selected) IN
          refresh_call' = Some([op |-> "get_changes",
                                pool |-> pool,
                                selected |-> selected,
                                ok |-> r.ok,
                                new_peers |-> r.new_peers,
                                stale_peers |-> r.stale_peers])
    /\ UNCHANGED <<actor_vars, thread_ids, ended_detached, directory_vars, online_vars>>

\* ------------------------------------------------------------------------
\* Specification
\* ------------------------------------------------------------------------

\* ConnectivityManager::create followed by spawn: no pools, nothing queued
Init ==
    /\ active_pools = PeerPools_new
    /\ ID_COUNTER = 0
    /\ tasks = {}
    /\ request_rx = <<>>
    /\ senders_dropped = FALSE
    /\ cm_events = <<>>
    /\ streams_terminated = FALSE
    /\ events_closed = FALSE
    /\ emitted = 0
    /\ actor = "running"
    /\ shutdown_fired = FALSE
    /\ pc = [c \in Requesters |-> "idle"]
    /\ oneshot = [c \in Requesters |-> "none"]
    /\ result = [c \in Requesters |-> NoCall]
    /\ sent = 0
    /\ handled = [c \in Requesters |-> 0]
    /\ ok_added = {}
    /\ last = [kind |-> "none", pool_type |-> NoType, from |-> 0, reply |-> "NoReply",
               created |-> FALSE, after_error |-> FALSE]
    /\ live = {}
    /\ cm_requests = {}
    /\ banned = {}
    /\ thread_ids = [t \in Threads |-> <<>>]
    /\ ended_detached = FALSE
    /\ peer_storage = [pk \in PubKeys |-> None]
    /\ now = 0
    /\ ban_log = [pk \in PubKeys |-> None]
    /\ dir_reply = None
    /\ upsert = NoUpsert
    /\ upsert_log = None
    /\ refresh_call = None

Next ==
    \/ \E c \in Requesters, t \in PoolTypes : Requester_add_pool(c, t)
    \/ \E c \in Requesters, t \in PoolTypes : Requester_release_pool(c, t)
    \/ \E c \in Requesters, t \in PoolTypes : Requester_get_pool(c, t)
    \/ \E c \in Requesters, sel \in Selections : Requester_select_connections(c, sel, 1)
    \/ \E c \in Requesters, n \in NodeIds : Requester_ban_peer(c, n)
    \/ \E c \in Requesters : AwaitReply(c)
    \/ DropRequesters
    \/ HandleAddPool
    \/ HandleReleasePool
    \/ HandleGetPool
    \/ HandleSelectConnections
    \/ HandleBanPeer
    \/ HandleEvent
    \/ SelectPendsOnShutdown
    \/ ExitOnShutdown
    \/ RefreshTaskEnds
    \/ FireShutdown
    \/ \E n \in NodeIds : PeerConnected(n)
    \/ \E n \in NodeIds : PeerDisconnected(n)
    \/ \E n \in NodeIds : PeerConnectWillClose(n)
    \/ EventItemErr
    \/ CloseEvents

Spec == Init /\ [][Next]_vars

\* the threads of the process drawing ids from the one static counter
NextIds ==
    \E t \in Threads : ThreadGetNextId(t)

SpecIds == Init /\ [][NextIds]_vars

\* the callers of the peer directory
NextDir ==
    \/ \E pk \in PubKeys : DirAddPeer(pk)
    \/ \E pk \in PubKeys, d \in Durations : DirBanFor(pk, d)
    \/ \E pk \in PubKeys : DirUnban(pk)
    \/ DirFloodPeers
    \/ \E t \in Targets, n \in Limits, x \in Exclusions, f \in FeatureFilters :
          DirClosestPeers(t, n, x, f)
    \/ Tick

SpecDir == Init /\ [][NextDir]_vars

\* the callers of the region threshold and of the exact lookups
NextLookup ==
    \/ \E pk \in PubKeys : DirAddPeer(pk)
    \/ \E pk \in PubKeys, d \in Durations : DirBanFor(pk, d)
    \/ \E pk \in PubKeys : DirUnban(pk)
    \/ \E t \in Targets, n \in RegionSizes,
          f \in {COMMUNICATION_NODE, COMMUNICATION_CLIENT} :
          DirCalcRegionThreshold(t, n, f)
    \/ \E node_id \in LookupNodeIds : DirDirectIdentityNodeId(node_id)
    \/ \E pk \in PubKeys : DirDirectIdentityPublicKey(pk)
    \/ Tick

SpecLookup == Init /\ [][NextLookup]_vars

\* the callers of update_each
NextEach ==
    \/ \E pk \in PubKeys : DirAddPeer(pk)
    \/ \E pk \in PubKeys, d \in Durations : DirBanFor(pk, d)
    \/ \E f \in Closures : DirUpdateEach(f)

SpecEach == Init /\ [][NextEach]_vars

\* the callers of select_neighbours and the writes that make peers ineligible
NextSelect ==
    \/ \E pk \in PubKeys : DirAddPeer(pk)
    \/ \E pk \in SelectKeys : OnBanFor(pk, 1)
    \/ \E pk \in SelectKeys : OnSetOffline(pk, TRUE)
    \/ \E pk \in SelectKeys : OnSetLastConnectFailed(derive(pk))
    \/ \E n \in RegionSizes, max_attempts \in CooldownMaxAttempts,
          period \in CooldownPeriods : SelectNeighbours(n, max_attempts, period)
    \/ OnTick

SpecSelect == Init /\ [][NextSelect]_vars

\* a caller of add_or_update_online_peer and the callers writing the same record
NextOnline ==
    \/ \E pk \in OnlineKeys : UpsertFind(pk, COMMUNICATION_NODE)
    \/ UpsertAddFound
    \/ UpsertAddNew
    \/ UpsertFindAdded
    \/ \E pk \in OnlineKeys : OnBanFor(pk, 1)
    \/ \E pk \in OnlineKeys, b \in BOOLEAN : OnSetOffline(pk, b)
    \/ \E pk \in OnlineKeys : OnSetLastConnectFailed(derive(pk))
    \/ \E pk \in OnlineKeys : OnDeletePeer(derive(pk))
    \/ \E pk \in OnlineKeys : OnUpdatePeer(pk)
    \/ OnTick

SpecOnline == Init /\ [][NextOnline]_vars

\* the callers of refresh_pool_if_stale and of get_changes
NextRefresh ==
    \/ \E pools \in PoolsOfShape, pool_id \in PoolIds :
          CallRefreshPoolIfStale(pools, pool_id)
    \/ \E pools \in PoolsOfShape \ {PeerPools_new}, selected \in NodeLists :
          CallGetChanges(pools[1], selected)

SpecRefresh == Init /\ [][NextRefresh]_vars

\* the callers reporting connection results and the writes they run between
NextStats ==
    \/ \E pk \in SelectKeys : DirAddPeer(pk)
    \/ \E pk \in SelectKeys : OnSetOffline(pk, TRUE)
    \/ \E node_id \in StatsNodeIds : DirSetLastConnectSuccess(node_id)
    \/ \E node_id \in StatsNodeIds : DirSetLastConnectFailed(node_id)
    \/ Tick

SpecStats == Init /\ [][NextStats]_vars

\* ------------------------------------------------------------------------
\* Properties
\* ------------------------------------------------------------------------

\* the positions in active_pools of the pools of one type
PoolsOfType(t) ==
    {i \in 1..Len(active_pools) : active_pools[i].pool_type = t}

\* a step in which the request arm handled a message
RequestTurn == handled' # handled

\* a step in which the event arm handled an item
EventTurn == actor' = "running" /\ Len(cm_events') < Len(cm_events)

HandleRequest ==
    \/ HandleAddPool
    \/ HandleReleasePool
    \/ HandleGetPool
    \/ HandleSelectConnections
    \/ HandleBanPeer

\* C1: in every reachable state active_pools holds at most one pool of each
\* pool_type.
C1_AtMostOnePoolPerType ==
    \A t \in PoolTypes : Cardinality(PoolsOfType(t)) <= 1

\* C1 witness: an AddPool was handled for a type whose pool already existed.
C1_Witness ==
    /\ last.kind = "AddPool"
    /\ ~last.created
    /\ PoolsOfType(last.pool_type) # {}

\* C2: once an AddPool(t) has replied Ok, handling a further AddPool(t) replies
\* Ok, leaves active_pools as it is, allocates no PoolId and spawns no refresh.
C2_AddPoolIdempotent ==
    [][\A t \in ok_added :
          (RequestTurn /\ last'.kind = "AddPool" /\ last'.pool_type = t)
             => /\ last'.reply = "Ok"
                /\ oneshot'[last'.from] = "Ok"
                /\ active_pools' = active_pools
                /\ ID_COUNTER' = ID_COUNTER
                /\ tasks' = tasks]_vars

\* C2 witness: the pool with id 0 was created with its refresh spawned (so that
\* AddPool replied Ok), and a second AddPool of its type has been handled.
C2_Witness ==
    /\ last.kind = "AddPool"
    /\ ~last.created
    /\ last.pool_type \in ok_added
    /\ ID_COUNTER = 1
    /\ tasks = {0}

\* C3: the actor replies to every GetPool(t): Ok with a snapshot of the pool when
\* a pool of type t exists, a pool-not-found error when none does.
C3_GetPoolReplies ==
    last.kind = "GetPool"
        => last.reply = IF PoolsOfType(last.pool_type) # {}
                           THEN "OkPoolSnapshot"
                           ELSE "PoolNotFoundByType"

\* C4: after the actor has handled ReleasePool(t), active_pools holds no pool of
\* type t.
C4_ReleaseRemovesPool ==
    last.kind = "ReleasePool" => PoolsOfType(last.pool_type) = {}

\* C5: handling ReleasePool(t) sends nothing to the connection manager, changes
\* no peer of the directory, closes no connection (those of the released pool
\* stay live) and leaves the pools of the other type as they are.
C5_ReleasePoolFrame ==
    [][(RequestTurn /\ last'.kind = "ReleasePool")
          => /\ cm_requests' = cm_requests
             /\ banned' = banned
             /\ live' = live
             /\ \A i \in 1..Len(active_pools) :
                   active_pools[i].pool_type # last'.pool_type
                      => \E j \in 1..Len(active_pools') : active_pools'[j] = active_pools[i]]_vars

\* C5 witness: ReleasePool(t) was handled while a pool of the other type existed
\* and the connection manager held a live connection.
C5_Witness ==
    /\ last.kind = "ReleasePool"
    /\ \E t \in PoolTypes : t # last.pool_type /\ PoolsOfType(t) # {}
    /\ live # {}

\* C6: the requests of one requester are handled in the order they were sent:
\* no message is handled while an earlier message of the same requester is
\* still queued, whatever events interleave.
C6_RequesterFifo ==
    \A i \in 1..Len(request_rx) :
        /\ request_rx[i].n > handled[request_rx[i].from]
        /\ \A j \in 1..(i - 1) :
              request_rx[j].from = request_rx[i].from => request_rx[j].n < request_rx[i].n

\* C6 witness: the first message of a requester has been handled, an event was
\* handled after it, and a later message of the same requester is still queued.
C6_Witness ==
    /\ last.kind = "Event"
    /\ \E i \in 1..Len(request_rx) :
          /\ handled[request_rx[i].from] >= 1
          /\ request_rx[i].n > handled[request_rx[i].from]

\* C7: once the shutdown signal has fired, the loop's next turn is the
\* exit: it handles no further request and no further event.
C7_ExitsAtNextTurn ==
    [][(shutdown_fired /\ actor = "running") => (~RequestTurn /\ ~EventTurn)]_vars

\* C8: when the request channel and the event subscription have both ended and
\* the shutdown signal has not fired, the main loop has exited.
C8_ExitsWhenStreamsEnd ==
    (streams_terminated /\ ~shutdown_fired) => actor = "exited"

\* C9: a turn that ends in an error leaves the loop running and able to handle
\* the next request; the loop ends only after the shutdown signal has fired or
\* the request channel has closed.
C9_ErrorsKeepLoopRunning ==
    /\ last.reply \in ErrorOutcomes => actor = "running"
    /\ (actor = "running" /\ request_rx # <<>>) => ENABLED HandleRequest
    /\ actor = "exited" => (shutdown_fired \/ senders_dropped)

\* C9 witness: a request has been handled in the turn after one that ended in an
\* error.
C9_Witness ==
    /\ last.after_error
    /\ last.kind \in ReplyMethods \cup FireAndForget
    /\ actor = "running"

\* C10: what a requester method returns.  With a reply channel: ActorDisconnected
\* when the send failed, ActorResponseCancelled when the reply sender was dropped
\* without a reply, and otherwise the actor's reply as sent.  Without one: Ok
\* once the message is enqueued, ActorDisconnected when the send failed.
C10_RequesterErrorMapping ==
    \A c \in Requesters :
        /\ (result[c].method \in {"AddPool", "GetPool", "SelectConnections"} /\ pc[c] = "idle")
              => result[c].value =
                    IF ~result[c].sent THEN "ActorDisconnected"
                    ELSE IF oneshot[c] = "dropped" THEN "ActorResponseCancelled"
                    ELSE oneshot[c]
        /\ result[c].method \in {"ReleasePool", "BanPeer"}
              => /\ pc[c] = "idle"
                 /\ result[c].value = IF result[c].sent THEN "Ok" ELSE "ActorDisconnected"

\* C10 witness: an add_pool call returned ActorResponseCancelled, and the actor
\* can only have dropped its reply sender unanswered by exiting.
C10_Witness ==
    \E c \in Requesters :
        /\ result[c].method = "AddPool"
        /\ pc[c] = "idle"
        /\ result[c].value = "ActorResponseCancelled"

\* the ids returned so far, each with the thread and the call it was returned to
ReturnedIds ==
    {c \in Threads \X (1..MaxIdsPerThread) : c[2] <= Len(thread_ids[c[1]])}

\* C11: whatever the interleaving of the threads, no two calls of get_next_id
\* return the same id, and the ids one thread sees are strictly increasing.
C11_PoolIdsDistinct ==
    /\ \A c, d \in ReturnedIds :
          c # d => thread_ids[c[1]][c[2]] # thread_ids[d[1]][d[2]]
    /\ \A t \in Threads : \A k \in 1..(Len(thread_ids[t]) - 1) :
          thread_ids[t][k] < thread_ids[t][k + 1]

\* C11 witness: the calls of two threads interleaved: one thread drew ids 0 and
\* 2, another drew id 1 between them, and every thread made all its calls.
C11_Witness ==
    /\ \A t \in Threads : Len(thread_ids[t]) = MaxIdsPerThread
    /\ \E t, u \in Threads :
          /\ t # u
          /\ thread_ids[t][1] = 0
          /\ thread_ids[u][1] = 1
          /\ thread_ids[t][2] = 2

\* a step in which a spawned refresh task ran to its end
RefreshTaskEnd == tasks' # tasks /\ tasks' \subseteq tasks

C13_RefreshReportsByMessage ==
    [][/\ active_pools' # active_pools => (RequestTurn \/ EventTurn)
       /\ RefreshTaskEnd
             => /\ Len(request_rx') = Len(request_rx) + 1
                /\ request_rx'[Len(request_rx')].kind = "RefreshCompleted"]_vars

\* the node ids listed by the pools of one type
NodeIdsOfType(t) ==
    UNION {{get_node_ids(active_pools[i])[k] : k \in 1..Len(active_pools[i].connections)} :
              i \in PoolsOfType(t)}

NodeIdsOfPools ==
    UNION {NodeIdsOfType(t) : t \in PoolTypes}

\* C16: once the actor has handled BanPeer(node_id), the peer is banned in the
\* directory, a disconnect of node_id has been requested from the connection
\* manager, and no pool lists a connection to node_id.
C16_BanPeerEffects ==
    [][(RequestTurn /\ last'.kind = "BanPeer")
          => LET node_id == select_next_some(request_rx).item.node IN
                /\ node_id \in banned'
                /\ \E r \in cm_requests' : r.kind = "Disconnect" /\ r.node = node_id
                /\ node_id \notin NodeIdsOfPools']_vars

C18_SelectConnectionsReplies ==
    [][(RequestTurn /\ last'.kind = "SelectConnections")
          => LET req == select_next_some(request_rx).item
                 reply == oneshot'[req.from]
             IN  /\ active_pools' = active_pools
                 /\ banned' = banned
                 /\ reply \notin {"dropped", "pending", "none"}
                 /\ \A k \in 1..Len(reply.connections) :
                       reply.connections[k].peer_node_id \in NodeIdsOfPools
                 /\ req.sel = "Single"
                       => (Len(reply.connections) = 1 <=> req.node \in NodeIdsOfPools)]_vars

\* the public keys of the peers of a query result
Keys(peers) == {peers[i].public_key : i \in 1..Len(peers)}

\* the public keys stored in the directory
StoredKeys == {pk \in PubKeys : peer_storage[pk] # None}

\* the keys under a ban: a ban_for has completed, no unban has completed since,
\* and the deadline has not been reached
KeysUnderBan ==
    {pk \in PubKeys : ban_log[pk] # None /\ ban_log[pk][1].until > now}

\* the keys under a ban whose record has not been replaced since the ban_for
KeysUnderKeptBan ==
    {pk \in KeysUnderBan : ~ban_log[pk][1].replaced}

\* what the selections return when exactly the keys of hidden are banned: no
\* banned peer from closest_peers, the peers not banned from flood_peers, and
\* every peer not banned from closest_peers wherever it is eligible
SelectabilityFollows(hidden) ==
    /\ Keys(PeerManager_flood_peers(peer_storage, now)) = StoredKeys \ hidden
    /\ \A node_id \in Targets \cup {0}, n \in Limits, x \in Exclusions,
          f \in FeatureFilters \cup {Some(COMMUNICATION_CLIENT)} :
          LET found == Keys(PeerManager_closest_peers(peer_storage, now, node_id, n, x, f))
              eligible == {pk \in StoredKeys \ (hidden \cup x) :
                              f = None \/ peer_storage[pk][1].features = f[1]}
          IN  /\ found \cap hidden = {}
              /\ n >= Cardinality(PubKeys) => found = eligible

\* C20 as claimed: from the completion of ban_for(pk, d) until the ban expires or
\* unban(pk) completes, neither closest_peers nor flood_peers returns the peer;
\* flood_peers returns exactly the peers not banned; a peer whose ban has ended
\* is returned again wherever it is eligible.
C20_SelectabilityFollowsBan ==
    SelectabilityFollows(KeysUnderBan)

\* C20 as amended: the same, the ban of a peer ending also when its record is
\* replaced by add_peer with a record that is not banned.
C20_SelectabilityFollowsKeptBan ==
    SelectabilityFollows(KeysUnderKeptBan)

\* C20 witness: the ban of a stored peer was renewed while in force, the other
\* stored peers are not banned, one of them after an unban, and closest_peers
\* has returned peers without the banned one although it was not excluded.
C20_Witness ==
    /\ dir_reply # None
    /\ dir_reply[1].op = "closest_peers"
    /\ dir_reply[1].value # <<>>
    /\ \E pk \in KeysUnderKeptBan :
          /\ ban_log[pk][1].until = now + 2
          /\ now > 0
          /\ pk \notin dir_reply[1].excluded_peers
          /\ dir_reply[1].features = None
          /\ pk \notin Keys(dir_reply[1].value)
          /\ Len(dir_reply[1].value) < dir_reply[1].n

\* the peers closest_peers may return at the present time: not banned, matching
\* the features when some are given, and not excluded
Eligible(excluded_peers, features) ==
    {p \in StoredPeers(peer_storage) :
        /\ ~is_banned(p, now)
        /\ features = None \/ p.features = features[1]
        /\ p.public_key \notin excluded_peers}

\* the elements of a sequence
Range(seq) == {seq[i] : i \in 1..Len(seq)}

\* C21: closest_peers returns exactly min(n, |E|) peers of E, the peers that are
\* not banned, match the features and are not excluded, in ascending order of
\* distance from the target, none of the peers of E left out being closer than a
\* returned one; with n = 0 nothing, with |E| < n all of E, never an error.
C21_ClosestPeersExact ==
    (dir_reply # None /\ dir_reply[1].op = "closest_peers") =>
        LET r == dir_reply[1]
            E == Eligible(r.excluded_peers, r.features)
            d(p) == distance(r.node_id, p.node_id)
            size == IF r.n < Cardinality(E) THEN r.n ELSE Cardinality(E)
        IN  /\ r.ok
            /\ Len(r.value) = size
            /\ Range(r.value) \subseteq E
            /\ \A i, j \in 1..Len(r.value) :
                  i < j => r.value[i] # r.value[j] /\ d(r.value[i]) <= d(r.value[j])
            /\ \A p \in E \ Range(r.value) :
                  \A i \in 1..Len(r.value) : d(r.value[i]) <= d(p)
            /\ r.n = 0 => r.value = <<>>
            /\ Cardinality(E) < r.n => Range(r.value) = E

\* C21 witness: closest_peers has returned two of three eligible peers.
C21_Witness ==
    /\ dir_reply # None
    /\ dir_reply[1].op = "closest_peers"
    /\ dir_reply[1].n = 2
    /\ Len(dir_reply[1].value) = 2
    /\ Cardinality(Eligible(dir_reply[1].excluded_peers, dir_reply[1].features)) = 3

\* the stored peers whose features are the given ones
Matching(features) == {p \in StoredPeers(peer_storage) : p.features = features}

\* what is claimed of a threshold T returned for (region, n, features): exactly
\* the n nearest matching peers lie within T, and so does every peer that
\* closest_peers(region, n, [], Some(features)) returns
RegionThreshold(r) ==
    LET d(p) == distance(r.node_id, p.node_id)
        within == {p \in Matching(r.features) : d(p) <= r.value}
        closest == PeerManager_closest_peers(peer_storage, now, r.node_id, r.n, {},
                                             Some(r.features))
    IN  /\ Cardinality(within) = r.n
        /\ \A p \in within, q \in Matching(r.features) \ within : d(p) < d(q)
        /\ \A p \in Range(closest) : d(p) <= r.value

\* C22 as claimed: calc_region_threshold(region, n, features) returns T such that,
\* among the peers whose features match, exactly the n nearest to region have
\* distance <= T and every other one has distance > T, and every peer returned by
\* closest_peers(region, n, [], Some(features)) has distance <= T.
C22_RegionThreshold ==
    (dir_reply # None /\ dir_reply[1].op = "calc_region_threshold") =>
        RegionThreshold(dir_reply[1])

\* C22 as amended: the same, provided that none of the peers whose features
\* match is banned (and n >= 1 with at least n matching peers stored).
C22_RegionThresholdNoBan ==
    (/\ dir_reply # None
     /\ dir_reply[1].op = "calc_region_threshold"
     /\ \A p \in Matching(dir_reply[1].features) : ~is_banned(p, now))
        => RegionThreshold(dir_reply[1])

\* C22 witness: a threshold for the nearest one of two matching peers, neither
\* banned, with a peer of other features stored nearer to the region.
C22_Witness ==
    /\ dir_reply # None
    /\ dir_reply[1].op = "calc_region_threshold"
    /\ dir_reply[1].n = 1
    /\ Cardinality(Matching(dir_reply[1].features)) = 2
    /\ \A p \in Matching(dir_reply[1].features) : ~is_banned(p, now)
    /\ \E q \in StoredPeers(peer_storage) :
          /\ q.features # dir_reply[1].features
          /\ distance(dir_reply[1].node_id, q.node_id) < dir_reply[1].value

\* the replies of direct_identity_node_id and direct_identity_public_key
DirectIdentityOps == {"direct_identity_node_id", "direct_identity_public_key"}

\* the stored peers a direct_identity reply was asked for: those with the node
\* id, or with the public key
AskedFor(r) ==
    {p \in StoredPeers(peer_storage) :
        IF r.op = "direct_identity_node_id"
            THEN p.node_id = r.node_id
            ELSE p.public_key = r.public_key}

\* C23: direct_identity_node_id and direct_identity_public_key return
\* Ok(Some(peer)) with the matching node id and public key for a stored peer that
\* is not banned, Ok(None) for a banned peer and for an unknown identity, Err
\* only for another (storage) error, and they never change the directory.
C23_DirectIdentity ==
    /\ [](dir_reply # None /\ dir_reply[1].op \in DirectIdentityOps =>
            LET r == dir_reply[1]
                asked == AskedFor(r)
            IN  IF r.storage_failed
                    THEN ~r.ok /\ r.value \notin {"PeerNotFoundError", "BannedPeer"}
                    ELSE /\ r.ok
                         /\ (\E p \in asked : ~is_banned(p, now))
                               => r.value # None /\ r.value[1] \in asked
                         /\ (\A p \in asked : is_banned(p, now)) => r.value = None)
    /\ [][(dir_reply' # None /\ dir_reply'[1].op \in DirectIdentityOps)
             => peer_storage' = peer_storage]_vars

\* C23 witness: a lookup by node id has returned Ok(None) for a stored peer that
\* is banned.
C23_Witness ==
    /\ dir_reply # None
    /\ dir_reply[1].op = "direct_identity_node_id"
    /\ dir_reply[1].ok
    /\ dir_reply[1].value = None
    /\ \E p \in AskedFor(dir_reply[1]) : is_banned(p, now)

\* a successful add_or_update_online_peer has returned
UpsertReturned ==
    /\ dir_reply # None
    /\ dir_reply[1].op = "add_or_update_online_peer"
    /\ dir_reply[1].ok

\* C24: for any stored peer, whatever its is_offline flag and failed_attempts
\* count, a successful add_or_update_online_peer returns a peer with
\* is_offline = false and failed_attempts = 0, and the peer stored under the
\* public key afterwards is the returned one.
C24_OnlineUpsertClears ==
    (UpsertReturned /\ dir_reply[1].found # None) =>
        /\ ~dir_reply[1].value.is_offline
        /\ dir_reply[1].value.failed_attempts = 0
        /\ peer_storage[dir_reply[1].public_key] = Some(dir_reply[1].value)

\* C24 witness: add_or_update_online_peer has succeeded for a peer it found
\* stored offline with a failed attempt.
C24_Witness ==
    /\ UpsertReturned
    /\ dir_reply[1].found # None
    /\ dir_reply[1].found[1].is_offline
    /\ dir_reply[1].found[1].failed_attempts > 0

\* a peer, and a directory, without the values of the last-success timestamps
WithoutLastSuccess(peer) == [peer EXCEPT !.last_success = None]

StorageWithoutLastSuccess(storage) ==
    [pk \in DOMAIN storage |->
        IF storage[pk] = None THEN None ELSE Some(WithoutLastSuccess(storage[pk][1]))]

\* the step in which add_or_update_online_peer returns Ok
UpsertReturns ==
    /\ upsert.pc # "idle"
    /\ upsert'.pc = "idle"
    /\ dir_reply'[1].ok

\* C25: add_or_update_online_peer called twice in succession with identical
\* arguments and no other write in between returns the same peer both times and
\* leaves the same directory, but for the value of the last-success timestamp,
\* whether the peer was unknown before the first call or already stored.
C25_OnlineUpsertIdempotent ==
    [][(/\ UpsertReturns
        /\ upsert_log # None
        /\ upsert_log[1].public_key = upsert.public_key
        /\ upsert_log[1].features = upsert.features)
          => /\ WithoutLastSuccess(dir_reply'[1].value)
                   = WithoutLastSuccess(upsert_log[1].value)
             /\ StorageWithoutLastSuccess(peer_storage')
                   = StorageWithoutLastSuccess(upsert_log[1].storage)]_vars

\* C25 witness: the call has returned a second time with no write in between,
\* the first call having added the peer: the second is the first to set a
\* last-success timestamp, and it does so at a later time.
C25_Witness ==
    /\ UpsertReturned
    /\ dir_reply[1].repeated
    /\ dir_reply[1].found # None
    /\ dir_reply[1].found[1].last_success = None
    /\ dir_reply[1].value.last_success = Some(now)
    /\ now > 0

\* the call that returns and the one write w that completed while it ran give
\* what the two give one after the other, in one order or the other
Linearisable(w, reply, storage) ==
    LET pubkey == upsert.public_key
        call(s) == add_or_update_online_peer(s, pubkey, derive(pubkey), upsert.features, now)
        call_first == call(upsert.start)
        write_second == ApplyWrite(call_first.storage, w.write, w.at)
        write_first == ApplyWrite(upsert.start, w.write, w.at)
        call_second == call(write_first.storage)
    IN  \/ /\ call_first.ok /\ call_first.value = reply.value
           /\ write_second.ok = w.ok /\ write_second.value = w.value
           /\ write_second.storage = storage
        \/ /\ write_first.ok = w.ok /\ write_first.value = w.value
           /\ call_second.ok /\ call_second.value = reply.value
           /\ call_second.storage = storage

\* C26: directory writes are linearisable, add_or_update_online_peer included:
\* whenever one ban_for, set_offline, set_last_connect_failed, update_peer or
\* delete_peer on the same peer completes while add_or_update_online_peer runs,
\* the directory and the returned values are those of the two operations in some
\* sequential order, so no completed write is lost.
C26_UpsertLinearisable ==
    [][(UpsertReturns /\ upsert.writes # <<>> /\ ~upsert.many)
          => Linearisable(upsert.writes[1], dir_reply'[1], peer_storage')]_vars

\* C27: the directory never partially applies a mutation: if update_each fails
\* with a storage error while re-inserting a replacement, the directory is what
\* it was before the call; when it succeeds, exactly the peers for which f
\* returned a replacement are replaced, the others are unchanged, and the count
\* returned is the number of replacements.
C27_UpdateEachAllOrNothing ==
    [][(dir_reply' # None /\ dir_reply'[1].op = "update_each") =>
          IF dir_reply'[1].ok
              THEN /\ \A pk \in PubKeys :
                         peer_storage'[pk] =
                            IF peer_storage[pk] = None
                                   \/ Replacement(dir_reply'[1].f, peer_storage[pk][1]) = None
                                THEN peer_storage[pk]
                                ELSE Replacement(dir_reply'[1].f, peer_storage[pk][1])
                   /\ dir_reply'[1].value =
                         Cardinality({p \in StoredPeers(peer_storage) :
                                         Replacement(dir_reply'[1].f, p) # None})
              ELSE peer_storage' = peer_storage]_vars

\* the peers select_neighbours may return according to the claim: not banned,
\* with the features of a communication node, and with few enough failed
\* attempts or a last failure long enough ago
ClaimedEligible(r) ==
    {p \in StoredPeers(peer_storage) :
        /\ ~is_banned(p, now)
        /\ contains(p.features, COMMUNICATION_NODE)
        /\ \/ p.failed_attempts <= r.max_attempts
           \/ p.last_failure # None /\ now - p.last_failure[1] >= r.period}

\* C28: select_neighbours(directory, self_node_id, n) returns exactly the
\* min(n, |E|) peers of E closest to self_node_id, in ascending distance order,
\* a peer being in E if and only if it is not banned, its features include
\* COMMUNICATION_NODE, and failed_attempts <= broadcast_cooldown_max_attempts or
\* time_since_last_failure >= broadcast_cooldown_period; the filter comes before
\* the limit.
C28_SelectNeighboursExact ==
    (dir_reply # None /\ dir_reply[1].op = "select_neighbours") =>
        LET r == dir_reply[1]
            E == ClaimedEligible(r)
            d(p) == distance(LocalNodeId, p.node_id)
            size == IF r.n < Cardinality(E) THEN r.n ELSE Cardinality(E)
        IN  /\ Len(r.value) = size
            /\ Range(r.value) \subseteq E
            /\ \A i, j \in 1..Len(r.value) :
                  i < j => d(r.value[i]) < d(r.value[j])
            /\ \A p \in E \ Range(r.value) :
                  \A i \in 1..Len(r.value) : d(r.value[i]) < d(p)

\* the pools of the actor that a refresh task ending in this step was spawned for
RefreshedPools ==
    {i \in 1..Len(active_pools') : active_pools'[i].id \in tasks \ tasks'}

\* C29: once a refresh started for a pool completes and the pool still exists,
\* the pool has last_refreshed set and refresh_in_progress = false, so that it
\* is not stale until stale_interval has elapsed; a pool created by AddPool does
\* not stay stale for ever.
C29_RefreshCompletionMarksPool ==
    [][RefreshTaskEnd =>
          \A i \in RefreshedPools :
             /\ active_pools'[i].last_refreshed # None
             /\ ~active_pools'[i].refresh_in_progress
             /\ ~is_stale(active_pools'[i], 0)]_vars

\* a refresh task is in flight for the pool of type t
RefreshInFlight(t) ==
    \E i \in 1..Len(active_pools) :
        active_pools[i].pool_type = t /\ active_pools[i].id \in tasks

RefreshCalls ==
    IF refresh_call # None /\ refresh_call[1].op = "refresh_pool_if_stale"
        THEN {refresh_call[1]}
        ELSE {}

\* the pools of a call that have the id asked for
PoolsAsked(c) ==
    {c.pools[i] : i \in {j \in 1..Len(c.pools) : c.pools[j].id = c.pool_id}}

\* a pool refreshed before whose reading is within its stale interval
Fresh(pool, elapsed) ==
    /\ pool.last_refreshed # None
    /\ elapsed <= pool.params.stale_interval

\* the call returned `res`, made no peer selection, spawned no task and left
\* every pool as it was
ExitedEarly(c, res) ==
    /\ c.res = res
    /\ ~c.queried
    /\ c.spawned = {}
    /\ c.left = c.pools

\* C31: refresh_pool_if_stale returns PoolNotFoundById for a pool id that is not
\* in active_pools and Ok(()) for a pool that is not stale, in both cases
\* without a peer selection, a spawned task or a change to a pool; and a pool is
\* not stale exactly when last_refreshed is present and the elapsed time is not
\* greater than stale_interval, every other pool going on to the peer selection
C31_EarlyExitsChangeNothing ==
    \A c \in RefreshCalls :
        /\ PoolsAsked(c) = {} => ExitedEarly(c, "PoolNotFoundById")
        /\ \A pool \in PoolsAsked(c) :
              /\ Fresh(pool, c.elapsed) => ExitedEarly(c, "Ok")
              /\ ~Fresh(pool, c.elapsed) => c.queried

\* a refresh of a pool refreshed exactly stale_interval ago has returned Ok early
C31_Witness ==
    \E c \in RefreshCalls :
        /\ \E pool \in PoolsAsked(c) :
              /\ pool.last_refreshed # None
              /\ c.elapsed = pool.params.stale_interval
        /\ ExitedEarly(c, "Ok")

\* the calls of get_changes recorded that returned Ok
ChangesComputed ==
    IF refresh_call # None /\ refresh_call[1].op = "get_changes" /\ refresh_call[1].ok
        THEN {refresh_call[1]}
        ELSE {}

\* the elements of a sequence
Elements(seq) == {seq[i] : i \in 1..Len(seq)}

\* C32: the change set get_changes returns for a pool is to_dial = the selected
\* peers the pool is not connected to and to_disconnect = the connections of the
\* pool that are not among the selected peers, two disjoint sets that leave the
\* connections both current and selected in place, so that dialling the one and
\* dropping the other makes the pool's node ids the selected set
C32_ChangeSetPartitions ==
    \A c \in ChangesComputed :
        LET current == Elements(get_node_ids(c.pool))
            selected == Elements(c.selected)
            to_dial == Elements(c.new_peers)
            to_disconnect == Elements(c.stale_peers)
        IN  /\ to_dial = selected \ current
            /\ to_disconnect = current \ selected
            /\ to_dial \cap to_disconnect = {}
            /\ (current \ to_disconnect) \cup to_dial = selected

\* the status the refresh algorithm assigns to a pool with these connections
StatusOfRefreshed(pool) ==
    IF Len(pool.connections) >= pool.params.num_desired
        THEN "Ok"
    ELSE IF /\ pool.params.min_required # None
            /\ Len(pool.connections) >= pool.params.min_required[1]
        THEN "Partial"
    ELSE "Failed"

\* C33: when a refresh of a pool completes, the status of the pool is Ok if it
\* has at least num_desired connections, otherwise Partial if min_required is
\* set and it has at least min_required connections, otherwise Failed; the
\* status Uninitialized does not outlast the first completed refresh
C33_StatusAfterRefresh ==
    [][RefreshTaskEnd =>
          \A i \in RefreshedPools :
             /\ active_pools'[i].status = StatusOfRefreshed(active_pools'[i])
             /\ active_pools'[i].status # "Uninitialized"]_vars

\* a refresh is outstanding: a task spawned for it has not run to its end
RefreshOutstanding == tasks # {}

\* C34: the actor does not wait for the work of a refresh: the AddPool that
\* starts a refresh sends its reply and returns to the select in the step that
\* spawns the task, the task still outstanding, and while a task is outstanding
\* the running actor takes the next request, the next event and the shutdown
\* signal as soon as one is ready
C34_NoInlineWait ==
    /\ []((RefreshOutstanding /\ actor = "running") =>
            /\ (request_rx # <<>>) => ENABLED HandleRequest
            /\ (cm_events # <<>>) => ENABLED HandleEvent
            /\ shutdown_fired => ENABLED ExitOnShutdown)
    /\ [][(RequestTurn /\ last'.kind = "AddPool" /\ last'.created /\ last'.reply = "Ok")
             => /\ active_pools'[Len(active_pools')].id \in tasks'
                /\ oneshot'[last'.from] = "Ok"
                /\ actor' = "running"]_vars

\* C34 witness: a GetPool was handled and answered after the AddPool that spawned
\* the refresh task, which is still outstanding
C34_Witness ==
    /\ RefreshOutstanding
    /\ last.kind = "GetPool"
    /\ oneshot[last.from] # "pending"
    /\ actor = "running"

\* the stored peers with the node id
PeersWithNodeId(node_id) ==
    {p \in StoredPeers(peer_storage) : p.node_id = node_id}

\* every record but the one stored under the key is as it was
OthersUntouched(public_key) ==
    \A pk \in PubKeys \ {public_key} : peer_storage'[pk] = peer_storage[pk]

\* C35: set_last_connect_success and set_last_connect_failed each look their
\* peer up and update it in one step: success records the success and sets
\* is_offline = false, failure raises failed_attempts by exactly one, records
\* the failure and leaves is_offline and every other field as it was, so that k
\* calls raise failed_attempts by k; neither touches another record, and for a
\* node id of no stored peer each returns PeerNotFound and changes nothing
C35_ConnectResultsAtomic ==
    [][(/\ dir_reply' # None
        /\ dir_reply'[1].op \in {"set_last_connect_success", "set_last_connect_failed"})
          => LET r == dir_reply'[1] IN
             /\ PeersWithNodeId(r.node_id) = {} =>
                   /\ ~r.ok
                   /\ r.value = "PeerNotFoundError"
                   /\ peer_storage' = peer_storage
             /\ \A p \in PeersWithNodeId(r.node_id) :
                   LET stored == peer_storage'[p.public_key] IN
                   /\ r.ok
                   /\ OthersUntouched(p.public_key)
                   /\ stored # None
                   /\ r.op = "set_last_connect_failed" =>
                         stored[1] = [p EXCEPT !.failed_attempts = p.failed_attempts + 1,
                                               !.last_failure = Some(now)]
                   /\ r.op = "set_last_connect_success" =>
                         /\ stored[1].is_offline = FALSE
                         /\ stored[1].last_success = Some(now)
                         /\ stored[1].public_key = p.public_key
                         /\ stored[1].node_id = p.node_id
                         /\ stored[1].features = p.features
                         /\ stored[1].banned_until = p.banned_until
                         /\ stored[1].last_failure = p.last_failure]_vars

\* C35 witness: a second set_last_connect_failed on an offline peer has returned
\* Ok, the peer standing at two failed attempts and still offline
C35_Witness ==
    /\ dir_reply # None
    /\ dir_reply[1].op = "set_last_connect_failed"
    /\ dir_reply[1].ok
    /\ \E p \in PeersWithNodeId(dir_reply[1].node_id) :
          /\ p.failed_attempts = 2
          /\ p.is_offline

\* C36: an AddPool for a type without a pool appends the pool to active_pools,
\* whatever its refresh returns, and leaves the pools before it in place; when
\* the refresh returns an error, that error is the reply, no task is spawned and
\* the pool stays; an AddPool for a type that has a pool, the pool of a failed
\* refresh included, replies Ok and neither creates nor refreshes anything
C36_AddPoolKeepsPoolOnError ==
    [][(RequestTurn /\ last'.kind = "AddPool") =>
          /\ last'.created <=> PoolsOfType(last'.pool_type) = {}
          /\ last'.created =>
                /\ Len(active_pools') = Len(active_pools) + 1
                /\ SubSeq(active_pools', 1, Len(active_pools)) = active_pools
                /\ active_pools'[Len(active_pools')].pool_type = last'.pool_type
                /\ oneshot'[last'.from] = last'.reply
          /\ (last'.created /\ last'.reply \in ErrorOutcomes) => tasks' = tasks
          /\ ~last'.created =>
                /\ last'.reply = "Ok"
                /\ oneshot'[last'.from] = "Ok"
                /\ active_pools' = active_pools
                /\ tasks' = tasks
                /\ ID_COUNTER' = ID_COUNTER]_vars

\* C36 witness: the AddPool before this one created the pool and replied with the
\* error of its refresh; this AddPool of the same type has replied Ok, the pool
\* still the only one and never refreshed
C36_Witness ==
    /\ last.kind = "AddPool"
    /\ ~last.created
    /\ last.reply = "Ok"
    /\ last.after_error
    /\ emitted = 0
    /\ Len(active_pools) = 1
    /\ active_pools[1].pool_type = last.pool_type
    /\ ID_COUNTER = 1
    /\ tasks = {}
    /\ ~ended_detached

====
